---------------------------- MODULE Spec2Model ----------------------------
(***************************************************************************)
(* A model of the keeg hashing library (namralkeeg/keeg): the streaming    *)
(* interface HashAlgorithm (initialize / hashCore / hashFinal /            *)
(* computeHash) and the algorithms that implement it.                      *)
(*                                                                         *)
(* Representation of machine integers.  TLC integers are 32-bit signed, so *)
(* a uint32_t is a pair <<lo, hi>> of 16-bit limbs and a uint64_t a        *)
(* 4-tuple of 16-bit limbs, least significant limb first.  All arithmetic  *)
(* is modulo 2^32 resp. 2^64 as in C++.  A byte is a number in 0..255.     *)
(* The host is little-endian (x86, __BYTE_ORDER == __LITTLE_ENDIAN).       *)
(***************************************************************************)
EXTENDS Integers, Sequences, FiniteSets, TLC

(***************************************************************************)
(* Bit operations on bytes and 16-bit limbs.  The word operations take the *)
(* table of byte conjunctions as their first argument T.                   *)
(***************************************************************************)
RECURSIVE BitAnd(_, _, _)
BitAnd(a, b, n) ==
    IF n = 0 THEN 0
    ELSE ((a % 2) * (b % 2)) + (2 * BitAnd(a \div 2, b \div 2, n - 1))

AndTab == [a \in 0..255 |-> [b \in 0..255 |-> BitAnd(a, b, 8)]]

And16(T, a, b) == T[a % 256][b % 256] + (256 * T[a \div 256][b \div 256])
Xor16(T, a, b) == (a + b) - (2 * And16(T, a, b))
Xor8(a, b) == (a + b) - (2 * AndTab[a][b])

(***************************************************************************)
(* uint32_t                                                                *)
(***************************************************************************)
W(hi, lo) == <<lo, hi>>
U32(n) == <<n % 65536, n \div 65536>>          \* for 0 <= n < 2^31
Zero32 == <<0, 0>>

Xor32(T, a, b) == <<Xor16(T, a[1], b[1]), Xor16(T, a[2], b[2])>>
And32(T, a, b) == <<And16(T, a[1], b[1]), And16(T, a[2], b[2])>>
\* a | b = a + b - (a & b)
Or32(T, a, b) ==
    <<(a[1] + b[1]) - And16(T, a[1], b[1]), (a[2] + b[2]) - And16(T, a[2], b[2])>>
xor32(a, b) == Xor32(AndTab, a, b)
and32(a, b) == And32(AndTab, a, b)
not32(a) == <<65535 - a[1], 65535 - a[2]>>
or32(a, b) == Or32(AndTab, a, b)

add32(a, b) ==
    <<(a[1] + b[1]) % 65536,
      (a[2] + b[2] + ((a[1] + b[1]) \div 65536)) % 65536>>
sub32(a, b) ==
    <<((a[1] + 65536) - b[1]) % 65536,
      ((a[2] + 65535 + (((a[1] + 65536) - b[1]) \div 65536)) - b[2]) % 65536>>

shl32(a, n) ==
    IF n >= 16
    THEN <<0, (a[1] * (2 ^ (n - 16))) % 65536>>
    ELSE <<(a[1] * (2 ^ n)) % 65536,
           ((a[2] * (2 ^ n)) % 65536) + (a[1] \div (2 ^ (16 - n)))>>
shr32(a, n) ==
    IF n >= 16
    THEN <<a[2] \div (2 ^ (n - 16)), 0>>
    ELSE <<(a[1] \div (2 ^ n)) + ((a[2] % (2 ^ n)) * (2 ^ (16 - n))),
           a[2] \div (2 ^ n)>>

\* the compound assignments h ^= h >> n, h ^= h << n, h += h << n, h += h >> n
XorShr32(h, n) == xor32(h, shr32(h, n))
XorShl32(h, n) == xor32(h, shl32(h, n))
AddShl32(h, n) == add32(h, shl32(h, n))
AddShr32(h, n) == add32(h, shr32(h, n))

Bytes32(a) == <<a[1] % 256, a[1] \div 256, a[2] % 256, a[2] \div 256>>

\* long addition and multiplication: r = <<position, carry, digits so far>>,
\* s the sum of the column at that position and the carry
Carry(r, s, base) == <<r[1] + 1, s \div base, Append(r[3], s % base)>>
\* column k of the product of the byte sequences x and y, rows i to j, as
\* the sum of its halves
RECURSIVE MulRows(_, _, _, _, _)
MulRows(x, y, k, i, j) ==
    IF i = j THEN x[i] * y[(k + 1) - i]
    ELSE MulRows(x, y, k, i, (i + j) \div 2)
             + MulRows(x, y, k, ((i + j) \div 2) + 1, j)
\* column k of the product of the byte sequences x and y, from row i on
MulColumn(x, y, k, i) == IF i > k THEN 0 ELSE MulRows(x, y, k, i, k)
RECURSIVE MulBytes(_, _, _)
MulBytes(x, y, r) ==
    IF r[1] > Len(x) THEN r[3]
    ELSE MulBytes(x, y, Carry(r, MulColumn(x, y, r[1], 1) + r[2], 256))
FromBytes32(b) == <<b[1] + (256 * b[2]), b[3] + (256 * b[4])>>
mul32(a, b) == FromBytes32(MulBytes(Bytes32(a), Bytes32(b), <<1, 0, <<>>>>))

\* keeg::endian::rotateLeft(uint32_t, uint8_t), 0 < n < 32
RotBits32(r, m, d) ==
    <<((r[1] * m) % 65536) + (r[2] \div d), ((r[2] * m) % 65536) + (r[1] \div d)>>
rotateLeft32(a, n) ==
    RotBits32(IF n >= 16 THEN <<a[2], a[1]>> ELSE a,
              2 ^ (n % 16), 2 ^ (16 - (n % 16)))
\* keeg::endian::rotateRight(uint32_t, uint8_t), 0 < n < 32
rotateRight32(a, n) == rotateLeft32(a, 32 - n)
\* keeg::endian::swap(uint32_t)
swap32(a) ==
    <<((a[2] % 256) * 256) + (a[2] \div 256),
      ((a[1] % 256) * 256) + (a[1] \div 256)>>

(***************************************************************************)
(* uint64_t                                                                *)
(***************************************************************************)
Zero64 == <<0, 0, 0, 0>>
U64(n) == <<n % 65536, n \div 65536, 0, 0>>    \* for 0 <= n < 2^31
W64(l3, l2, l1, l0) == <<l0, l1, l2, l3>>

Xor64(T, a, b) ==
    <<Xor16(T, a[1], b[1]), Xor16(T, a[2], b[2]),
      Xor16(T, a[3], b[3]), Xor16(T, a[4], b[4])>>
And64(T, a, b) ==
    <<And16(T, a[1], b[1]), And16(T, a[2], b[2]),
      And16(T, a[3], b[3]), And16(T, a[4], b[4])>>
xor64(a, b) == Xor64(AndTab, a, b)
and64(a, b) == And64(AndTab, a, b)
not64(a) == <<65535 - a[1], 65535 - a[2], 65535 - a[3], 65535 - a[4]>>

RECURSIVE AddLimbs(_, _, _)
AddLimbs(a, b, r) ==
    IF r[1] > Len(a) THEN r[3]
    ELSE AddLimbs(a, b, Carry(r, a[r[1]] + b[r[1]] + r[2], 65536))
add64(a, b) == AddLimbs(a, b, <<1, 0, <<>>>>)
sub64(a, b) == AddLimbs(a, not64(b), <<1, 1, <<>>>>)

\* a rotated left by k whole limbs and then by the bits m = 2^s, d = 2^(16-s)
RotBits64(r, m, d) ==
    <<((r[1] * m) % 65536) + (r[4] \div d), ((r[2] * m) % 65536) + (r[1] \div d),
      ((r[3] * m) % 65536) + (r[2] \div d), ((r[4] * m) % 65536) + (r[3] \div d)>>
\* keeg::endian::rotateLeft(uint64_t, uint8_t), 0 < n < 64
rotateLeft64(a, n) ==
    RotBits64(SubSeq(a \o a, 5 - (n \div 16), 8 - (n \div 16)),
              2 ^ (n % 16), 2 ^ (16 - (n % 16)))
\* x >> n on uint64_t, 0 < n < 64: whole limbs, then the bits d = 2^s
ShrBits64(r, d, m) ==
    <<(r[1] \div d) + ((r[2] % d) * m), (r[2] \div d) + ((r[3] % d) * m),
      (r[3] \div d) + ((r[4] % d) * m), (r[4] \div d) + ((r[5] % d) * m)>>
shr64(a, n) ==
    ShrBits64(SubSeq(a \o <<0, 0, 0, 0, 0>>, 1 + (n \div 16), 5 + (n \div 16)),
              2 ^ (n % 16), 2 ^ (16 - (n % 16)))

\* h ^= h >> n
XorShr64(h, n) == xor64(h, shr64(h, n))

Bytes64(a) ==
    <<a[1] % 256, a[1] \div 256, a[2] % 256, a[2] \div 256,
      a[3] % 256, a[3] \div 256, a[4] % 256, a[4] \div 256>>
FromBytes64(b) ==
    <<b[1] + (256 * b[2]), b[3] + (256 * b[4]),
      b[5] + (256 * b[6]), b[7] + (256 * b[8])>>
mul64(a, b) == FromBytes64(MulBytes(Bytes64(a), Bytes64(b), <<1, 0, <<>>>>))

(***************************************************************************)
(* Memory blocks.  A block of memory is a sequence of bytes; p is a        *)
(* 0-based byte offset into it, as a C++ pointer difference.               *)
(***************************************************************************)
\* GET16BITS(x): *reinterpret_cast<const uint16_t*>(x) on a little-endian host
GET16BITS(mem, p) == mem[p + 1] + (256 * mem[p + 2])
\* GET32BITS(x)
GET32BITS(mem, p) == <<GET16BITS(mem, p), GET16BITS(mem, p + 2)>>
\* GET64BITS(x)
GET64BITS(mem, p) ==
    <<GET16BITS(mem, p), GET16BITS(mem, p + 2),
      GET16BITS(mem, p + 4), GET16BITS(mem, p + 6)>>
\* the bytes of a uint32_t / uint64_t in big-endian order (native_to_big
\* followed by a byte-wise copy of the object)
BigEndianBytes32(a) == <<a[2] \div 256, a[2] % 256, a[1] \div 256, a[1] % 256>>
BigEndianBytes64(a) ==
    <<a[4] \div 256, a[4] % 256, a[3] \div 256, a[3] % 256,
      a[2] \div 256, a[2] % 256, a[1] \div 256, a[1] % 256>>
\* std::copy(src + p, src + p + n, dst): overwrite the first n bytes of dst
CopyInto(dst, src, p, n) ==
    SubSeq(src, p + 1, p + n) \o SubSeq(dst, n + 1, Len(dst))

(***************************************************************************)
(* Objects.  An algorithm instance is a record: cls names the class, the   *)
(* other fields are the data members of the class (and of HashAlgorithm).  *)
(* A method is an operator from the object before the call to the object   *)
(* after it; hashFinal returns [obj, v] with v the returned byte vector.   *)
(***************************************************************************)
Min(a, b) == IF a < b THEN a ELSE b
Max(a, b) == IF a < b THEN b ELSE a

\* an indeterminate byte: storage that no constructor or initialize() writes
Indeterminate == 205
IndeterminateBytes(n) == [i \in 1..n |-> Indeterminate]
Zeros(n) == [i \in 1..n |-> 0]

\* dst[at .. at+n-1] = src[p .. p+n-1] (0-based), the byte-copy loops
\*   m_buffer[m_bufferSize++] = *current++
WriteBytes(dst, at, src, p, n) ==
    IF n = 0 THEN dst
    ELSE SubSeq(dst, 1, at) \o SubSeq(src, p + 1, p + n)
         \o SubSeq(dst, at + n + 1, Len(dst))

\* a faulty byte-copy loop: it writes from the start of m_buffer, over the
\* bytes the buffer holds
BufferBytes_FromStart(o, data, current, n) ==
    [o EXCEPT !.m_buffer = WriteBytes(@, 0, data, current, n),
              !.m_bufferSize = @ + n]

\* the byte-copy loop on the members m_buffer and m_bufferSize of o
BufferBytes(o, data, current, n) ==
    [o EXCEPT !.m_buffer = WriteBytes(@, o.m_bufferSize, data, current, n),
              !.m_bufferSize = @ + n]

\* a faulty loop: while (numBytes > 0), without the test of m_bufferSize
FillCount_Unbounded(o, numBytes, blockSize) ==
    IF o.m_bufferSize > 0 THEN numBytes ELSE 0

\* the number of passes of the loop
\*   if (m_bufferSize > 0) while (numBytes > 0 && m_bufferSize < blockSize)
FillCount(o, numBytes, blockSize) ==
    IF o.m_bufferSize > 0 THEN Min(numBytes, blockSize - o.m_bufferSize) ELSE 0

\* 16 consecutive 32-bit words read through a const uint32_t* at mem + p
Words16(mem, p) ==
    SubSeq([i \in 1..16 |-> GET32BITS(mem, p + (4 * (i - 1)))], 1, 16)
\* the same words after endian::swap (big-endian message words)
SwappedWords16(mem, p) ==
    SubSeq([i \in 1..16 |-> swap32(GET32BITS(mem, p + (4 * (i - 1))))], 1, 16)

\* m_hash[i] += r[i], the old hash added to the registers after the rounds
AddWords(h, r) == SubSeq([i \in 1..Len(h) |-> add32(h[i], r[i])], 1, Len(h))

\* the hash words stored byte by byte, little-endian resp. big-endian
RECURSIVE LittleEndianWords(_)
LittleEndianWords(h) ==
    IF h = <<>> THEN <<>> ELSE Bytes32(Head(h)) \o LittleEndianWords(Tail(h))
RECURSIVE BigEndianWords(_)
BigEndianWords(h) ==
    IF h = <<>> THEN <<>> ELSE BigEndianBytes32(Head(h)) \o BigEndianWords(Tail(h))

\* a faulty msgBits: the bytes of the blocks hashed before are not counted
MsgBits_BufferOnly(o) == U64(8 * o.m_bufferSize)
\* uint64_t msgBits = 8 * (m_numBytes + m_bufferSize); the byte counts of the
\* model stay below 2^28, so the product is exact
MsgBits(o) == U64(8 * (o.m_numBytes + o.m_bufferSize))

\* processBuffer of Md5, Sha1 and Sha256 up to the processBlock calls.
\* paddedLength is the number of bytes of the padded message tail.
MD_BLOCK_SIZE == 64
\* a faulty paddedLength: 55 buffered bytes already take a second block
MD_paddedLength_NoRoomAt55(bufferSize) ==
    LET bits == (bufferSize * 8) + 1
        lower11Bits == bits % 512
    IN  (IF lower11Bits < 441
         THEN bits + (448 - lower11Bits)
         ELSE bits + ((512 + 448) - lower11Bits)) \div 8
MD_paddedLength(bufferSize) ==
    LET bits == (bufferSize * 8) + 1
        lower11Bits == bits % 512
    IN  (IF lower11Bits <= 448
         THEN bits + (448 - lower11Bits)
         ELSE bits + ((512 + 448) - lower11Bits)) \div 8
\* m_buffer followed by the local array extra as one block of memory, after
\*   if (m_bufferSize < BLOCK_SIZE) m_buffer[m_bufferSize] = 128;
\*   else extra[0] = 128;
\*   for (i = m_bufferSize + 1; i < BLOCK_SIZE; i++) m_buffer[i] = 0;
\*   for (; i < paddedLength; i++) extra[i - BLOCK_SIZE] = 0;
\* and the 8 bytes lengthBytes written through addLength
MD_padded(o, lengthBytes) ==
    WriteBytes(
        WriteBytes(
            WriteBytes(o.m_buffer \o IndeterminateBytes(MD_BLOCK_SIZE),
                       o.m_bufferSize, <<128>>, 0, 1),
            o.m_bufferSize + 1, Zeros(2 * MD_BLOCK_SIZE), 0,
            Max(MD_BLOCK_SIZE, MD_paddedLength(o.m_bufferSize))
                - (o.m_bufferSize + 1)),
        MD_paddedLength(o.m_bufferSize), lengthBytes, 0, 8)

(***************************************************************************)
(* Md5 (md5.hpp)                                                           *)
(***************************************************************************)
Md5_hashSize == 8 * 16
Md5_BLOCK_SIZE == 64
Md5_NUM_HASH_VALUES == 4

Md5_f1(b, c, d) == xor32(d, and32(b, xor32(c, d)))
Md5_f2(b, c, d) == xor32(c, and32(d, xor32(b, c)))
Md5_f3(b, c, d) == xor32(xor32(b, c), d)
Md5_f4(b, c, d) == xor32(c, or32(b, not32(d)))
Md5_f(k, b, c, d) ==
    CASE k = 1 -> Md5_f1(b, c, d)
      [] k = 2 -> Md5_f2(b, c, d)
      [] k = 3 -> Md5_f3(b, c, d)
      [] k = 4 -> Md5_f4(b, c, d)

\* the 64 statements of processBlock in order: <<round function, index of
\* the message word, additive constant, rotation>>
Md5_Steps ==
    <<<<1,  0, W(\hd76a, \ha478),  7>>,
      <<1,  1, W(\he8c7, \hb756), 12>>,
      <<1,  2, W(\h2420, \h70db), 17>>,
      <<1,  3, W(\hc1bd, \hceee), 22>>,
      <<1,  4, W(\hf57c, \h0faf),  7>>,
      <<1,  5, W(\h4787, \hc62a), 12>>,
      <<1,  6, W(\ha830, \h4613), 17>>,
      <<1,  7, W(\hfd46, \h9501), 22>>,
      <<1,  8, W(\h6980, \h98d8),  7>>,
      <<1,  9, W(\h8b44, \hf7af), 12>>,
      <<1, 10, W(\hffff, \h5bb1), 17>>,
      <<1, 11, W(\h895c, \hd7be), 22>>,
      <<1, 12, W(\h6b90, \h1122),  7>>,
      <<1, 13, W(\hfd98, \h7193), 12>>,
      <<1, 14, W(\ha679, \h438e), 17>>,
      <<1, 15, W(\h49b4, \h0821), 22>>,
      <<2,  1, W(\hf61e, \h2562),  5>>,
      <<2,  6, W(\hc040, \hb340),  9>>,
      <<2, 11, W(\h265e, \h5a51), 14>>,
      <<2,  0, W(\he9b6, \hc7aa), 20>>,
      <<2,  5, W(\hd62f, \h105d),  5>>,
      <<2, 10, W(\h0244, \h1453),  9>>,
      <<2, 15, W(\hd8a1, \he681), 14>>,
      <<2,  4, W(\he7d3, \hfbc8), 20>>,
      <<2,  9, W(\h21e1, \hcde6),  5>>,
      <<2, 14, W(\hc337, \h07d6),  9>>,
      <<2,  3, W(\hf4d5, \h0d87), 14>>,
      <<2,  8, W(\h455a, \h14ed), 20>>,
      <<2, 13, W(\ha9e3, \he905),  5>>,
      <<2,  2, W(\hfcef, \ha3f8),  9>>,
      <<2,  7, W(\h676f, \h02d9), 14>>,
      <<2, 12, W(\h8d2a, \h4c8a), 20>>,
      <<3,  5, W(\hfffa, \h3942),  4>>,
      <<3,  8, W(\h8771, \hf681), 11>>,
      <<3, 11, W(\h6d9d, \h6122), 16>>,
      <<3, 14, W(\hfde5, \h380c), 23>>,
      <<3,  1, W(\ha4be, \hea44),  4>>,
      <<3,  4, W(\h4bde, \hcfa9), 11>>,
      <<3,  7, W(\hf6bb, \h4b60), 16>>,
      <<3, 10, W(\hbebf, \hbc70), 23>>,
      <<3, 13, W(\h289b, \h7ec6),  4>>,
      <<3,  0, W(\heaa1, \h27fa), 11>>,
      <<3,  3, W(\hd4ef, \h3085), 16>>,
      <<3,  6, W(\h0488, \h1d05), 23>>,
      <<3,  9, W(\hd9d4, \hd039),  4>>,
      <<3, 12, W(\he6db, \h99e5), 11>>,
      <<3, 15, W(\h1fa2, \h7cf8), 16>>,
      <<3,  2, W(\hc4ac, \h5665), 23>>,
      <<4,  0, W(\hf429, \h2244),  6>>,
      <<4,  7, W(\h432a, \hff97), 10>>,
      <<4, 14, W(\hab94, \h23a7), 15>>,
      <<4,  5, W(\hfc93, \ha039), 21>>,
      <<4, 12, W(\h655b, \h59c3),  6>>,
      <<4,  3, W(\h8f0c, \hcc92), 10>>,
      <<4, 10, W(\hffef, \hf47d), 15>>,
      <<4,  1, W(\h8584, \h5dd1), 21>>,
      <<4,  8, W(\h6fa8, \h7e4f),  6>>,
      <<4, 15, W(\hfe2c, \he6e0), 10>>,
      <<4,  6, W(\ha301, \h4314), 15>>,
      <<4, 13, W(\h4e08, \h11a1), 21>>,
      <<4,  4, W(\hf753, \h7e82),  6>>,
      <<4, 11, W(\hbd3a, \hf235), 10>>,
      <<4,  2, W(\h2ad7, \hd2bb), 15>>,
      <<4,  9, W(\heb86, \hd391), 21>>>>

\* the statements cycle through a, d, c, b as the updated variable:
\*   x = rotateLeft(x + f(y,z,w) + word + constant, s) + y
\* with (x,y,z,w) = (a,b,c,d), (d,a,b,c), (c,d,a,b), (b,c,d,a).
\* r = <<x, y, z, w, number of the next statement>>
Md5_step(words, r, s) ==
    add32(rotateLeft32(add32(add32(add32(r[1], Md5_f(s[1], r[2], r[3], r[4])),
                                   words[s[2] + 1]), s[3]),
                       s[4]), r[2])
\* one of the four rounds: n steps
RECURSIVE Md5_round(_, _, _)
Md5_round(words, r, n) ==
    IF n = 0 \/ r[5] > 64 THEN r
    ELSE Md5_round(words, <<r[4], Md5_step(words, r, Md5_Steps[r[5]]),
                            r[2], r[3], r[5] + 1>>, n - 1)
\* the four rounds of sixteen steps each
RECURSIVE Md5_rounds(_, _)
Md5_rounds(words, r) ==
    IF r[5] > 64 THEN r
    ELSE Md5_rounds(words, Md5_round(words, r, 16))

\* the old hash added to the registers r after the rounds
Md5_addHash(o, r) == [o EXCEPT !.m_hash = AddWords(@, r)]


\* void Md5::processBlock(const void *data), data = mem + p
Md5_processBlock(o, mem, p) ==
    Md5_addHash(o, Md5_rounds(Words16(mem, p),
                              <<o.m_hash[1], o.m_hash[2], o.m_hash[3],
                                o.m_hash[4], 1>>))

\* a faulty initialize(): it leaves m_bufferSize as it is
Md5_initialize_KeepsBufferSize(o) ==
    [o EXCEPT !.m_hashValue = <<>>, !.m_numBytes = 0,
              !.m_hash = <<W(\h6745, \h2301), W(\hefcd, \hab89),
                           W(\h98ba, \hdcfe), W(\h1032, \h5476)>>]

Md5_initialize(o) ==
    [o EXCEPT !.m_hashValue = <<>>, !.m_numBytes = 0, !.m_bufferSize = 0,
              !.m_hash = <<W(\h6745, \h2301), W(\hefcd, \hab89),
                           W(\h98ba, \hdcfe), W(\h1032, \h5476)>>]

Md5_Md5 ==
    Md5_initialize([cls |-> "Md5", m_hashValue |-> <<>>, m_numBytes |-> 0,
                    m_bufferSize |-> 0,
                    m_buffer |-> IndeterminateBytes(Md5_BLOCK_SIZE),
                    m_hash |-> <<Zero32, Zero32, Zero32, Zero32>>])

RECURSIVE Md5_fullBlocks(_, _, _, _)
Md5_fullBlocks(o, data, current, numBytes) ==
    IF numBytes >= Md5_BLOCK_SIZE
    THEN Md5_fullBlocks(
             [Md5_processBlock(o, data, current)
                 EXCEPT !.m_numBytes = @ + Md5_BLOCK_SIZE],
             data, current + Md5_BLOCK_SIZE, numBytes - Md5_BLOCK_SIZE)
    ELSE \* keep remaining bytes in buffer
         BufferBytes(o, data, current, numBytes)

\* a faulty drain of the full buffer: m_bufferSize stays BLOCK_SIZE
Md5_fullBuffer_KeepsSize(o) ==
    IF o.m_bufferSize = Md5_BLOCK_SIZE
    THEN [Md5_processBlock(o, o.m_buffer, 0)
             EXCEPT !.m_numBytes = @ + Md5_BLOCK_SIZE]
    ELSE o

\* if (m_bufferSize == BLOCK_SIZE): full buffer
Md5_fullBuffer(o) ==
    IF o.m_bufferSize = Md5_BLOCK_SIZE
    THEN [Md5_processBlock(o, o.m_buffer, 0)
             EXCEPT !.m_numBytes = @ + Md5_BLOCK_SIZE, !.m_bufferSize = 0]
    ELSE o

\* k bytes complete the buffered block; full blocks are hashed in place and
\* the rest is buffered (with no more data, that is nothing)
Md5_hashCoreFrom(o, data, dataLength, startIndex, k) ==
    Md5_fullBlocks(Md5_fullBuffer(BufferBytes(o, data, startIndex, k)),
                   data, startIndex + k, dataLength - k)
Md5_hashCore(o, data, dataLength, startIndex) ==
    Md5_hashCoreFrom(o, data, dataLength, startIndex,
                     FillCount(o, dataLength, Md5_BLOCK_SIZE))

\* processBlock(m_buffer); if (paddedLength > BLOCK_SIZE) processBlock(extra);
RECURSIVE Md5_processPadded(_, _, _, _)
Md5_processPadded(o, mem, p, paddedLength) ==
    IF p >= paddedLength THEN o
    ELSE Md5_processPadded(Md5_processBlock(o, mem, p), mem,
                           p + Md5_BLOCK_SIZE, paddedLength)
\* void Md5::processBuffer()
Md5_processBuffer(o) ==
    Md5_processPadded(
        [o EXCEPT !.m_buffer =
            SubSeq(MD_padded(o, Bytes64(MsgBits(o))), 1, Md5_BLOCK_SIZE)],
        MD_padded(o, Bytes64(MsgBits(o))), 0,
        MD_paddedLength(o.m_bufferSize))

\* the hash of the padded message o1, and the old hash restored
Md5_result(o, o1) ==
    [obj |-> [o1 EXCEPT !.m_hash = o.m_hash], v |-> LittleEndianWords(o1.m_hash)]
Md5_hashFinal(o) == Md5_result(o, Md5_processBuffer(o))

(***************************************************************************)
(* Sha1 (sha1.hpp)                                                         *)
(***************************************************************************)
Sha1_hashSize == 8 * 20
Sha1_BLOCK_SIZE == 64
Sha1_NUM_HASH_VALUES == 5

Sha1_f1(b, c, d) == xor32(d, and32(b, xor32(c, d)))
Sha1_f2(b, c, d) == xor32(xor32(b, c), d)
Sha1_f3(b, c, d) == or32(or32(and32(b, c), and32(b, d)), and32(c, d))

\* round function and constant of statement j (0-based), 20 statements a round
Sha1_f(j, b, c, d) ==
    CASE j < 20 -> Sha1_f1(b, c, d)
      [] j >= 20 /\ j < 40 -> Sha1_f2(b, c, d)
      [] j >= 40 /\ j < 60 -> Sha1_f3(b, c, d)
      [] j >= 60 -> Sha1_f2(b, c, d)
Sha1_k(j) ==
    CASE j < 20 -> W(\h5a82, \h7999)
      [] j >= 20 /\ j < 40 -> W(\h6ed9, \heba1)
      [] j >= 40 /\ j < 60 -> W(\h8f1b, \hbcdc)
      [] j >= 60 -> W(\hca62, \hc1d6)

\* words[i] = rotateLeft(words[i-3] ^ words[i-8] ^ words[i-14] ^ words[i-16], 1)
\* for the next n words
RECURSIVE Sha1_extendBy(_, _)
Sha1_extendBy(words, n) ==
    IF n = 0 \/ Len(words) >= 80 THEN words
    ELSE LET i == Len(words) + 1
         IN  Sha1_extendBy(words \o
                 <<rotateLeft32(xor32(xor32(xor32(words[i - 3], words[i - 8]),
                                            words[i - 14]), words[i - 16]), 1)>>,
                 n - 1)
\* extend to 80 words, sixteen words at a time
RECURSIVE Sha1_extend(_)
Sha1_extend(words) ==
    IF Len(words) >= 80 THEN words
    ELSE Sha1_extend(Sha1_extendBy(words, 16))

\* the statements cycle through e, d, c, b, a as the updated variable:
\*   v += rotateLeft(w,5) + f(x,y,z) + words[j] + k; x = rotateLeft(x,30)
\* r = <<w, x, y, z, v, j>>
Sha1_statement(words, r) ==
    <<add32(r[5],
            add32(add32(add32(rotateLeft32(r[1], 5),
                              Sha1_f(r[6], r[2], r[3], r[4])),
                        words[r[6] + 1]), Sha1_k(r[6]))),
      r[1], rotateLeft32(r[2], 30), r[3], r[4], r[6] + 1>>
\* one of the four loops: n statements
RECURSIVE Sha1_loop(_, _, _)
Sha1_loop(words, r, n) ==
    IF n = 0 \/ r[6] >= 80 THEN r
    ELSE Sha1_loop(words, Sha1_statement(words, r), n - 1)
\* the four loops of twenty statements each
RECURSIVE Sha1_rounds(_, _)
Sha1_rounds(words, r) ==
    IF r[6] >= 80 THEN r
    ELSE Sha1_rounds(words, Sha1_loop(words, r, 20))

\* the old hash added to the registers r after the rounds
Sha1_addHash(o, r) == [o EXCEPT !.m_hash = AddWords(@, r)]


\* void Sha1::processBlock(const void *data), data = mem + p
Sha1_processBlock(o, mem, p) ==
    Sha1_addHash(o, Sha1_rounds(Sha1_extend(SwappedWords16(mem, p)),
                                <<o.m_hash[1], o.m_hash[2], o.m_hash[3],
                                  o.m_hash[4], o.m_hash[5], 0>>))

Sha1_initialize(o) ==
    [o EXCEPT !.m_hashValue = <<>>, !.m_numBytes = 0, !.m_bufferSize = 0,
              !.m_hash = <<W(\h6745, \h2301), W(\hefcd, \hab89),
                           W(\h98ba, \hdcfe), W(\h1032, \h5476),
                           W(\hc3d2, \he1f0)>>]

Sha1_Sha1 ==
    Sha1_initialize([cls |-> "Sha1", m_hashValue |-> <<>>, m_numBytes |-> 0,
                     m_bufferSize |-> 0,
                     m_buffer |-> IndeterminateBytes(Sha1_BLOCK_SIZE),
                     m_hash |-> <<Zero32, Zero32, Zero32, Zero32, Zero32>>])

RECURSIVE Sha1_fullBlocks(_, _, _, _)
Sha1_fullBlocks(o, data, current, numBytes) ==
    IF numBytes >= Sha1_BLOCK_SIZE
    THEN Sha1_fullBlocks(
             [Sha1_processBlock(o, data, current)
                 EXCEPT !.m_numBytes = @ + Sha1_BLOCK_SIZE],
             data, current + Sha1_BLOCK_SIZE, numBytes - Sha1_BLOCK_SIZE)
    ELSE \* keep remaining bytes in buffer
         BufferBytes(o, data, current, numBytes)

\* a faulty drain of the full buffer: the block is not counted in m_numBytes
Sha1_fullBuffer_NotCounted(o) ==
    IF o.m_bufferSize = Sha1_BLOCK_SIZE
    THEN [Sha1_processBlock(o, o.m_buffer, 0) EXCEPT !.m_bufferSize = 0]
    ELSE o

\* if (m_bufferSize == BLOCK_SIZE): full buffer
Sha1_fullBuffer(o) ==
    IF o.m_bufferSize = Sha1_BLOCK_SIZE
    THEN [Sha1_processBlock(o, o.m_buffer, 0)
             EXCEPT !.m_numBytes = @ + Sha1_BLOCK_SIZE, !.m_bufferSize = 0]
    ELSE o

\* k bytes complete the buffered block; full blocks are hashed in place and
\* the rest is buffered (with no more data, that is nothing)
Sha1_hashCoreFrom(o, data, dataLength, startIndex, k) ==
    Sha1_fullBlocks(Sha1_fullBuffer(BufferBytes(o, data, startIndex, k)),
                   data, startIndex + k, dataLength - k)
Sha1_hashCore(o, data, dataLength, startIndex) ==
    Sha1_hashCoreFrom(o, data, dataLength, startIndex,
                     FillCount(o, dataLength, Sha1_BLOCK_SIZE))

\* processBlock(m_buffer); if (paddedLength > BLOCK_SIZE) processBlock(extra);
RECURSIVE Sha1_processPadded(_, _, _, _)
Sha1_processPadded(o, mem, p, paddedLength) ==
    IF p >= paddedLength THEN o
    ELSE Sha1_processPadded(Sha1_processBlock(o, mem, p), mem,
                           p + Sha1_BLOCK_SIZE, paddedLength)
\* void Sha1::processBuffer()
Sha1_processBuffer(o) ==
    Sha1_processPadded(
        [o EXCEPT !.m_buffer =
            SubSeq(MD_padded(o, BigEndianBytes64(MsgBits(o))), 1, Sha1_BLOCK_SIZE)],
        MD_padded(o, BigEndianBytes64(MsgBits(o))), 0,
        MD_paddedLength(o.m_bufferSize))

\* the hash of the padded message o1, and the old hash restored
Sha1_result(o, o1) ==
    [obj |-> [o1 EXCEPT !.m_hash = o.m_hash], v |-> BigEndianWords(o1.m_hash)]
Sha1_hashFinal(o) == Sha1_result(o, Sha1_processBuffer(o))

(***************************************************************************)
(* Sha256 (sha256.hpp)                                                     *)
(***************************************************************************)
Sha256_hashSize == 8 * 32
Sha256_BLOCK_SIZE == 64
Sha256_NUM_HASH_VALUES == 8

Sha256_f1(e, f, g) ==
    LET term1 == xor32(xor32(rotateRight32(e, 6), rotateRight32(e, 11)),
                       rotateRight32(e, 25))
        term2 == xor32(and32(e, f), and32(not32(e), g))
    IN  add32(term1, term2)
Sha256_f2(a, b, c) ==
    LET term1 == xor32(xor32(rotateRight32(a, 2), rotateRight32(a, 13)),
                       rotateRight32(a, 22))
        term2 == or32(and32(or32(a, b), c), and32(a, b))
    IN  add32(term1, term2)

\* the constants of the 64 statements of processBlock in order
Sha256_K ==
    <<W(\h428a, \h2f98), W(\h7137, \h4491), W(\hb5c0, \hfbcf),
      W(\he9b5, \hdba5), W(\h3956, \hc25b), W(\h59f1, \h11f1),
      W(\h923f, \h82a4), W(\hab1c, \h5ed5), W(\hd807, \haa98),
      W(\h1283, \h5b01), W(\h2431, \h85be), W(\h550c, \h7dc3),
      W(\h72be, \h5d74), W(\h80de, \hb1fe), W(\h9bdc, \h06a7),
      W(\hc19b, \hf174), W(\he49b, \h69c1), W(\hefbe, \h4786),
      W(\h0fc1, \h9dc6), W(\h240c, \ha1cc), W(\h2de9, \h2c6f),
      W(\h4a74, \h84aa), W(\h5cb0, \ha9dc), W(\h76f9, \h88da),
      W(\h983e, \h5152), W(\ha831, \hc66d), W(\hb003, \h27c8),
      W(\hbf59, \h7fc7), W(\hc6e0, \h0bf3), W(\hd5a7, \h9147),
      W(\h06ca, \h6351), W(\h1429, \h2967), W(\h27b7, \h0a85),
      W(\h2e1b, \h2138), W(\h4d2c, \h6dfc), W(\h5338, \h0d13),
      W(\h650a, \h7354), W(\h766a, \h0abb), W(\h81c2, \hc92e),
      W(\h9272, \h2c85), W(\ha2bf, \he8a1), W(\ha81a, \h664b),
      W(\hc24b, \h8b70), W(\hc76c, \h51a3), W(\hd192, \he819),
      W(\hd699, \h0624), W(\hf40e, \h3585), W(\h106a, \ha070),
      W(\h19a4, \hc116), W(\h1e37, \h6c08), W(\h2748, \h774c),
      W(\h34b0, \hbcb5), W(\h391c, \h0cb3), W(\h4ed8, \haa4a),
      W(\h5b9c, \hca4f), W(\h682e, \h6ff3), W(\h748f, \h82ee),
      W(\h78a5, \h636f), W(\h84c8, \h7814), W(\h8cc7, \h0208),
      W(\h90be, \hfffa), W(\ha450, \h6ceb), W(\hbef9, \ha3f7),
      W(\hc671, \h78f2)>>

\* the next n words (the code extends eight words at a time, before the
\* round that reads them)
RECURSIVE Sha256_extendBy(_, _)
Sha256_extendBy(words, n) ==
    IF n = 0 \/ Len(words) >= 64 THEN words
    ELSE LET i == Len(words) + 1
             s0 == xor32(xor32(rotateRight32(words[i - 15], 7),
                               rotateRight32(words[i - 15], 18)),
                         shr32(words[i - 15], 3))
             s1 == xor32(xor32(rotateRight32(words[i - 2], 17),
                               rotateRight32(words[i - 2], 19)),
                         shr32(words[i - 2], 10))
         IN  Sha256_extendBy(words \o
                 <<add32(add32(add32(words[i - 16], s0), words[i - 7]), s1)>>,
                 n - 1)
RECURSIVE Sha256_extend(_)
Sha256_extend(words) ==
    IF Len(words) >= 64 THEN words
    ELSE Sha256_extend(Sha256_extendBy(words, 8))

\* the statements cycle through (h,d), (g,c), (f,b), (e,a), (d,h), ... :
\*   x = h + f1(e,f,g) + k + words[j]; y = f2(a,b,c); d += x; h = x + y;
\* r = <<a, b, c, d, e, f, g, h, j>> in the roles of the first statement
Sha256_step(r, x, y) ==
    <<add32(x, y), r[1], r[2], r[3], add32(r[4], x), r[5], r[6], r[7], r[9] + 1>>
Sha256_statement(words, r) ==
    Sha256_step(r, add32(add32(add32(r[8], Sha256_f1(r[5], r[6], r[7])),
                               Sha256_K[r[9] + 1]), words[r[9] + 1]),
                Sha256_f2(r[1], r[2], r[3]))
\* the n statements of one pass of a loop
RECURSIVE Sha256_loop(_, _, _)
Sha256_loop(words, r, n) ==
    IF n = 0 \/ r[9] >= 64 THEN r
    ELSE Sha256_loop(words, Sha256_statement(words, r), n - 1)
\* the rounds, eight statements at a time
RECURSIVE Sha256_rounds(_, _)
Sha256_rounds(words, r) ==
    IF r[9] >= 64 THEN r
    ELSE Sha256_rounds(words, Sha256_loop(words, r, 8))

\* the old hash added to the registers r after the rounds
Sha256_addHash(o, r) == [o EXCEPT !.m_hash = AddWords(@, r)]


\* void Sha256::processBlock(const void *data), data = mem + p
Sha256_processBlock(o, mem, p) ==
    Sha256_addHash(o, Sha256_rounds(Sha256_extend(SwappedWords16(mem, p)),
                                    <<o.m_hash[1], o.m_hash[2], o.m_hash[3],
                                      o.m_hash[4], o.m_hash[5], o.m_hash[6],
                                      o.m_hash[7], o.m_hash[8], 0>>))

Sha256_initialize(o) ==
    [o EXCEPT !.m_hashValue = <<>>, !.m_numBytes = 0, !.m_bufferSize = 0,
              !.m_hash = <<W(\h6a09, \he667), W(\hbb67, \hae85),
                           W(\h3c6e, \hf372), W(\ha54f, \hf53a),
                           W(\h510e, \h527f), W(\h9b05, \h688c),
                           W(\h1f83, \hd9ab), W(\h5be0, \hcd19)>>]

Sha256_Sha256 ==
    Sha256_initialize([cls |-> "Sha256", m_hashValue |-> <<>>,
                       m_numBytes |-> 0, m_bufferSize |-> 0,
                       m_buffer |-> IndeterminateBytes(Sha256_BLOCK_SIZE),
                       m_hash |-> <<Zero32, Zero32, Zero32, Zero32,
                                    Zero32, Zero32, Zero32, Zero32>>])

\* a faulty loop over the full blocks: each block is copied into m_buffer and
\* processed there
RECURSIVE Sha256_fullBlocks_ThroughBuffer(_, _, _, _)
Sha256_fullBlocks_ThroughBuffer(o, data, current, numBytes) ==
    IF numBytes >= Sha256_BLOCK_SIZE
    THEN Sha256_fullBlocks_ThroughBuffer(
             [Sha256_processBlock(o, data, current)
                 EXCEPT !.m_numBytes = @ + Sha256_BLOCK_SIZE,
                        !.m_buffer = SubSeq(data, current + 1,
                                            current + Sha256_BLOCK_SIZE)],
             data, current + Sha256_BLOCK_SIZE, numBytes - Sha256_BLOCK_SIZE)
    ELSE BufferBytes(o, data, current, numBytes)

RECURSIVE Sha256_fullBlocks(_, _, _, _)
Sha256_fullBlocks(o, data, current, numBytes) ==
    IF numBytes >= Sha256_BLOCK_SIZE
    THEN Sha256_fullBlocks(
             [Sha256_processBlock(o, data, current)
                 EXCEPT !.m_numBytes = @ + Sha256_BLOCK_SIZE],
             data, current + Sha256_BLOCK_SIZE, numBytes - Sha256_BLOCK_SIZE)
    ELSE \* keep remaining bytes in buffer
         BufferBytes(o, data, current, numBytes)

\* if (m_bufferSize == BLOCK_SIZE): full buffer
Sha256_fullBuffer(o) ==
    IF o.m_bufferSize = Sha256_BLOCK_SIZE
    THEN [Sha256_processBlock(o, o.m_buffer, 0)
             EXCEPT !.m_numBytes = @ + Sha256_BLOCK_SIZE, !.m_bufferSize = 0]
    ELSE o

\* k bytes complete the buffered block; full blocks are hashed in place and
\* the rest is buffered (with no more data, that is nothing)
Sha256_hashCoreFrom(o, data, dataLength, startIndex, k) ==
    Sha256_fullBlocks(Sha256_fullBuffer(BufferBytes(o, data, startIndex, k)),
                   data, startIndex + k, dataLength - k)
Sha256_hashCore(o, data, dataLength, startIndex) ==
    Sha256_hashCoreFrom(o, data, dataLength, startIndex,
                     FillCount(o, dataLength, Sha256_BLOCK_SIZE))

\* processBlock(m_buffer); if (paddedLength > BLOCK_SIZE) processBlock(extra);
RECURSIVE Sha256_processPadded(_, _, _, _)
Sha256_processPadded(o, mem, p, paddedLength) ==
    IF p >= paddedLength THEN o
    ELSE Sha256_processPadded(Sha256_processBlock(o, mem, p), mem,
                           p + Sha256_BLOCK_SIZE, paddedLength)
\* void Sha256::processBuffer()
Sha256_processBuffer(o) ==
    Sha256_processPadded(
        [o EXCEPT !.m_buffer =
            SubSeq(MD_padded(o, BigEndianBytes64(MsgBits(o))), 1, Sha256_BLOCK_SIZE)],
        MD_padded(o, BigEndianBytes64(MsgBits(o))), 0,
        MD_paddedLength(o.m_bufferSize))

\* a faulty hashFinal: the old hash is not restored
Sha256_result_NotRestored(o, o1) ==
    [obj |-> o1, v |-> BigEndianWords(o1.m_hash)]

\* the hash of the padded message o1, and the old hash restored
Sha256_result(o, o1) ==
    [obj |-> [o1 EXCEPT !.m_hash = o.m_hash], v |-> BigEndianWords(o1.m_hash)]
Sha256_hashFinal(o) == Sha256_result(o, Sha256_processBuffer(o))

(***************************************************************************)
(* Sha3 (sha3.hpp)                                                         *)
(***************************************************************************)
Sha3_StateSize == 25
Sha3_MaxBlockSize == 144
Sha3_Rounds == 24
Sha3_XorMasks ==
    <<W64(\h0000, \h0000, \h0000, \h0001),
      W64(\h0000, \h0000, \h0000, \h8082),
      W64(\h8000, \h0000, \h0000, \h808a),
      W64(\h8000, \h0000, \h8000, \h8000),
      W64(\h0000, \h0000, \h0000, \h808b),
      W64(\h0000, \h0000, \h8000, \h0001),
      W64(\h8000, \h0000, \h8000, \h8081),
      W64(\h8000, \h0000, \h0000, \h8009),
      W64(\h0000, \h0000, \h0000, \h008a),
      W64(\h0000, \h0000, \h0000, \h0088),
      W64(\h0000, \h0000, \h8000, \h8009),
      W64(\h0000, \h0000, \h8000, \h000a),
      W64(\h0000, \h0000, \h8000, \h808b),
      W64(\h8000, \h0000, \h0000, \h008b),
      W64(\h8000, \h0000, \h0000, \h8089),
      W64(\h8000, \h0000, \h0000, \h8003),
      W64(\h8000, \h0000, \h0000, \h8002),
      W64(\h8000, \h0000, \h0000, \h0080),
      W64(\h0000, \h0000, \h0000, \h800a),
      W64(\h8000, \h0000, \h8000, \h000a),
      W64(\h8000, \h0000, \h8000, \h8081),
      W64(\h8000, \h0000, \h0000, \h8080),
      W64(\h0000, \h0000, \h8000, \h0001),
      W64(\h8000, \h0000, \h8000, \h8008)>>

\* return x % 5 for 0 <= x <= 9
Sha3_mod5(x) == IF x < 5 THEN x ELSE x - 5

\* mix data into state: m_hash[i] ^= data64[i] for i < n
RECURSIVE Sha3_mix(_, _, _, _)
Sha3_mix(h, mem, p, n) ==
    IF n = 0 THEN h
    ELSE [Sha3_mix(h, mem, p, n - 1)
             EXCEPT ![n] = xor64(@, GET64BITS(mem, p + (8 * (n - 1))))]

\* Theta; h[i + 1] is m_hash[i]
Sha3_coefficients(h) ==
    SubSeq([i \in 1..5 |->
               xor64(xor64(xor64(xor64(h[i], h[i + 5]), h[i + 10]), h[i + 15]),
                     h[i + 20])], 1, 5)
\* the value of one in pass i of the second loop, for every i
Sha3_ones(coefficients) ==
    SubSeq([i \in 1..5 |->
               xor64(coefficients[Sha3_mod5((i - 1) + 4) + 1],
                     rotateLeft64(coefficients[Sha3_mod5((i - 1) + 1) + 1], 1))],
           1, 5)
Sha3_xorOnes(h, one) ==
    SubSeq([i \in 1..Sha3_StateSize |-> xor64(h[i], one[((i - 1) % 5) + 1])],
           1, Sha3_StateSize)
Sha3_Theta(h) == Sha3_xorOnes(h, Sha3_ones(Sha3_coefficients(h)))

\* Rho Pi: the statements  one = m_hash[i]; m_hash[i] = rotateLeft(last, n);
\* last = one;  in order, as <<i, n>>
Sha3_RhoPiSteps ==
    <<<<10,  1>>, << 7,  3>>, <<11,  6>>, <<17, 10>>, <<18, 15>>, << 3, 21>>,
      << 5, 28>>, <<16, 36>>, << 8, 45>>, <<21, 55>>, <<24,  2>>, << 4, 14>>,
      <<15, 27>>, <<23, 41>>, <<19, 56>>, <<13,  8>>, <<12, 25>>, << 2, 43>>,
      <<20, 62>>, <<14, 18>>, <<22, 39>>, << 9, 61>>, << 6, 20>>, << 1, 44>>>>
\* r = <<m_hash, last, number of the next statement>>
Sha3_RhoPiStep(r, s) ==
    <<[r[1] EXCEPT ![s[1] + 1] = rotateLeft64(r[2], s[2])], r[1][s[1] + 1],
      r[3] + 1>>
RECURSIVE Sha3_RhoPiLoop(_)
Sha3_RhoPiLoop(r) ==
    IF r[3] > Len(Sha3_RhoPiSteps) THEN r[1]
    ELSE Sha3_RhoPiLoop(Sha3_RhoPiStep(r, Sha3_RhoPiSteps[r[3]]))
Sha3_RhoPi(h) == Sha3_RhoPiLoop(<<h, h[2], 1>>)

\* Chi: in row j, lane j + k becomes
\*   m_hash[j + k] ^ (m_hash[j + (k + 2) % 5] & ~m_hash[j + (k + 1) % 5])
\* of the values before the row's statements (the temporaries one and two)
Sha3_ChiLane(h, j, k) ==
    xor64(h[j + k + 1],
          and64(h[j + ((k + 2) % 5) + 1], not64(h[j + ((k + 1) % 5) + 1])))
Sha3_Chi(h) ==
    SubSeq([i \in 1..Sha3_StateSize |->
               Sha3_ChiLane(h, 5 * ((i - 1) \div 5), (i - 1) % 5)],
           1, Sha3_StateSize)

Sha3_Iota(h, round) == [h EXCEPT ![1] = xor64(@, Sha3_XorMasks[round + 1])]

\* re-compute state; r = <<m_hash, round>>
RECURSIVE Sha3_rounds(_)
Sha3_rounds(r) ==
    IF r[2] >= Sha3_Rounds THEN r[1]
    ELSE Sha3_rounds(<<Sha3_Iota(Sha3_Chi(Sha3_RhoPi(Sha3_Theta(r[1]))), r[2]),
                       r[2] + 1>>)

\* void Sha3::processBlock(const void *data), data = mem + p
Sha3_processBlock(o, mem, p) ==
    [o EXCEPT !.m_hash =
        Sha3_rounds(<<Sha3_mix(o.m_hash, mem, p, o.m_blockSize \div 8), 0>>)]

Sha3_initialize(o) ==
    [o EXCEPT !.m_hash = SubSeq([i \in 1..Sha3_StateSize |-> Zero64],
                                1, Sha3_StateSize),
              !.m_hashValue = <<>>, !.m_numBytes = 0, !.m_bufferSize = 0]

\* a faulty constructor: the block size is 200 less the digest size, not
\* less twice the digest size
Sha3_Sha3_SingleCapacity(bits) ==
    Sha3_initialize([cls |-> "Sha3", m_hashValue |-> <<>>,
                     m_blockSize |-> 200 - (bits \div 8),
                     m_bits |-> bits, m_numBytes |-> 0, m_bufferSize |-> 0,
                     m_buffer |-> IndeterminateBytes(Sha3_MaxBlockSize),
                     m_hash |-> IndeterminateBytes(Sha3_StateSize)])

\* Sha3::Sha3(const Sha3Bits &bits): bits is any value of the enum's
\* underlying type uint16_t, the enumerators are 224, 256, 384 and 512
Sha3_Sha3(bits) ==
    Sha3_initialize([cls |-> "Sha3", m_hashValue |-> <<>>,
                     m_blockSize |-> 200 - (2 * (bits \div 8)),
                     m_bits |-> bits, m_numBytes |-> 0, m_bufferSize |-> 0,
                     m_buffer |-> IndeterminateBytes(Sha3_MaxBlockSize),
                     m_hash |-> IndeterminateBytes(Sha3_StateSize)])

Sha3_hashSize(o) == o.m_bits

RECURSIVE Sha3_fullBlocks(_, _, _, _)
Sha3_fullBlocks(o, data, current, numBytes) ==
    IF numBytes >= o.m_blockSize
    THEN Sha3_fullBlocks(
             [Sha3_processBlock(o, data, current)
                 EXCEPT !.m_numBytes = @ + o.m_blockSize],
             data, current + o.m_blockSize, numBytes - o.m_blockSize)
    ELSE \* keep remaining bytes in buffer
         BufferBytes(o, data, current, numBytes)

\* a faulty drain of the full buffer: the block is counted and dropped
Sha3_fullBuffer_NotProcessed(o) ==
    IF o.m_bufferSize = o.m_blockSize
    THEN [o EXCEPT !.m_numBytes = @ + o.m_blockSize, !.m_bufferSize = 0]
    ELSE o

\* if (m_bufferSize == m_blockSize): full buffer
Sha3_fullBuffer(o) ==
    IF o.m_bufferSize = o.m_blockSize
    THEN [Sha3_processBlock(o, o.m_buffer, 0)
             EXCEPT !.m_numBytes = @ + o.m_blockSize, !.m_bufferSize = 0]
    ELSE o

\* k bytes complete the buffered block; full blocks are hashed in place and
\* the rest is buffered (with no more data, that is nothing)
Sha3_hashCoreFrom(o, data, dataLength, startIndex, k) ==
    Sha3_fullBlocks(Sha3_fullBuffer(BufferBytes(o, data, startIndex, k)),
                    data, startIndex + k, dataLength - k)
Sha3_hashCore(o, data, dataLength, startIndex) ==
    Sha3_hashCoreFrom(o, data, dataLength, startIndex,
                      FillCount(o, dataLength, o.m_blockSize))

\* a faulty padding: the byte 0x01 of Keccak before its standardization
Sha3_padded_Keccak(o) ==
    [WriteBytes(WriteBytes(o.m_buffer, o.m_bufferSize, <<1>>, 0, 1),
                o.m_bufferSize + 1, Zeros(Sha3_MaxBlockSize), 0,
                Max(0, o.m_blockSize - (o.m_bufferSize + 1)))
        EXCEPT ![Max(o.m_bufferSize + 1, o.m_blockSize)] = (@ % 128) + 128]
\* m_buffer after the padding: a "1" byte, zeros up to the block size, and
\* a single set bit in the last byte written
Sha3_padded(o) ==
    [WriteBytes(WriteBytes(o.m_buffer, o.m_bufferSize, <<6>>, 0, 1),
                o.m_bufferSize + 1, Zeros(Sha3_MaxBlockSize), 0,
                Max(0, o.m_blockSize - (o.m_bufferSize + 1)))
        EXCEPT ![Max(o.m_bufferSize + 1, o.m_blockSize)] = (@ % 128) + 128]
\* void Sha3::processBuffer()
Sha3_processBuffer(o) ==
    Sha3_processBlock([o EXCEPT !.m_buffer = Sha3_padded(o)], Sha3_padded(o), 0)

\* the first n bytes of the object representation of m_hash
RECURSIVE Sha3_hashBytes(_, _, _)
Sha3_hashBytes(h, i, n) ==
    IF n <= 0 THEN <<>>
    ELSE SubSeq(Bytes64(h[i]), 1, Min(n, 8)) \o Sha3_hashBytes(h, i + 1, n - 8)

\* the vector built from m_hash after processBuffer
Sha3_result(o) ==
    [obj |-> o, v |-> Sha3_hashBytes(o.m_hash, 1, Sha3_hashSize(o) \div 8)]
Sha3_hashFinal(o) == Sha3_result(Sha3_processBuffer(o))

(***************************************************************************)
(* Crc32 (crc32.hpp)                                                           *)
(***************************************************************************)
Crc32_hashSize == 32
Crc32_MaxSlice == 16
ZLIB_POLYNOMIAL == W(\hEDB8, \h8320)

\* entry = (entry >> 1) ^ ((entry & 1) * m_polynomial), j more times
RECURSIVE Crc32_entry(_, _, _)
Crc32_entry(entry, polynomial, j) ==
    IF j = 0 THEN entry
    ELSE IF entry[1] % 2 = 1
    THEN Crc32_entry(xor32(shr32(entry, 1), polynomial), polynomial, j - 1)
    ELSE Crc32_entry(shr32(entry, 1), polynomial, j - 1)

\* tables[s][i + 1] is m_lookupTable[s - 1][i]; one more slice per step
RECURSIVE Crc32_slices(_)
Crc32_slices(tables) ==
    IF Len(tables) >= Crc32_MaxSlice THEN tables
    ELSE LET prev == tables[Len(tables)]
         IN  Crc32_slices(tables \o
                 <<SubSeq([i \in 1..256 |->
                              xor32(shr32(prev[i], 8),
                                    tables[1][(prev[i][1] % 256) + 1])],
                          1, 256)>>)

\* void Crc32::initializeTable()
Crc32_initializeTable(o) ==
    [o EXCEPT !.m_lookupTable =
        Crc32_slices(<<SubSeq([i \in 1..256 |->
                                 Crc32_entry(U32(i - 1), o.m_polynomial, 8)],
                             1, 256)>>)]

\* a faulty initialize(): it clears the lookup table
Crc32_initialize_ClearsTable(o) ==
    [o EXCEPT !.m_hash = o.m_seed, !.m_hashValue = <<>>,
              !.m_lookupTable = [s \in 1..Crc32_MaxSlice |->
                                    [i \in 1..256 |-> Zero32]]]

Crc32_initialize(o) == [o EXCEPT !.m_hash = o.m_seed, !.m_hashValue = <<>>]

\* Crc32::Crc32(polynomial, seed): initialize(), then initializeTable() fills
\* every entry of m_lookupTable
Crc32_Crc32(polynomial, seed) ==
    Crc32_initializeTable(
        Crc32_initialize([cls |-> "Crc32", m_hashValue |-> <<>>,
                        m_polynomial |-> polynomial, m_seed |-> seed,
                        m_hash |-> Zero32, m_lookupTable |-> <<>>]))

\* crc = m_lookupTable[0][...] ^ ... ^ m_lookupTable[15][...]: table t - 1
\* is indexed by byte 16 - t of x, the 16 bytes read with crc mixed in
Crc32_lookup(T, x, t) == T[t][x[17 - t] + 1]
\* the lookups in the four tables from t on
Crc32_lookups4(T, x, t) ==
    xor32(xor32(Crc32_lookup(T, x, t), Crc32_lookup(T, x, t + 1)),
          xor32(Crc32_lookup(T, x, t + 2), Crc32_lookup(T, x, t + 3)))
\* the lookups in the Crc32_MaxSlice tables from t = 1 on
Crc32_lookups(T, x, t) ==
    xor32(xor32(Crc32_lookups4(T, x, t), Crc32_lookups4(T, x, t + 4)),
          xor32(Crc32_lookups4(T, x, t + 8), Crc32_lookups4(T, x, t + 12)))
\* one pass of the inner loop: 16 bytes at mem + p
Crc32_slice16(T, crc, mem, p) ==
    Crc32_lookups(T, Bytes32(xor32(GET32BITS(mem, p), crc))
                     \o SubSeq(mem, p + 5, p + 16), 1)

\* for (unrolling = 0; unrolling < Unroll; unrolling++)
\* r = <<crc, currentByte (offset into mem), numBytes>>, with the 16 bytes
\* of the pass in numBytes
RECURSIVE Crc32_unroll(_, _, _, _)
Crc32_unroll(T, mem, r, unrolling) ==
    IF unrolling >= 4 \/ r[3] < 16 THEN r
    ELSE Crc32_unroll(T, mem, <<Crc32_slice16(T, r[1], mem, r[2]), r[2] + 16,
                               r[3] - 16>>, unrolling + 1)
\* while (numBytes >= BytesAtOnce)
RECURSIVE Crc32_bytesAtOnce(_, _, _)
Crc32_bytesAtOnce(T, mem, r) ==
    IF r[3] < 64 THEN r
    ELSE Crc32_bytesAtOnce(T, mem, Crc32_unroll(T, mem, r, 0))

\* remaining 1 to 63 bytes (standard algorithm)
RECURSIVE Crc32_remaining(_, _, _)
Crc32_remaining(T, mem, r) ==
    IF r[3] = 0 THEN r
    ELSE Crc32_remaining(T, mem,
             <<xor32(shr32(r[1], 8),
                     T[1][Xor8(r[1][1] % 256, mem[r[2] + 1]) + 1]),
               r[2] + 1, r[3] - 1>>)

\* a faulty hashCore: it stores crc without the final inversion
Crc32_hashCore_StoresInverted(o, data, dataLength, startIndex) ==
    [o EXCEPT !.m_hash =
        Crc32_remaining(o.m_lookupTable, data,
            Crc32_bytesAtOnce(o.m_lookupTable, data,
                <<not32(o.m_hash), startIndex, dataLength>>))[1]]

Crc32_hashCore(o, data, dataLength, startIndex) ==
    [o EXCEPT !.m_hash =
        not32(Crc32_remaining(o.m_lookupTable, data,
                  Crc32_bytesAtOnce(o.m_lookupTable, data,
                      <<not32(o.m_hash), startIndex, dataLength>>))[1])]

\* a faulty hashFinal: the bytes of m_hash in the order of a little-endian host
Crc32_hashFinal_NativeBytes(o) == [obj |-> o, v |-> Bytes32(o.m_hash)]

Crc32_hashFinal(o) == [obj |-> o, v |-> BigEndianBytes32(o.m_hash)]

(***************************************************************************)
(* Crc64 (crc64.hpp)                                                           *)
(***************************************************************************)
Crc64_hashSize == 64
Crc64_MaxSlice == 16
ECMA_182_POLYNOMIAL == W64(\hC96C, \h5795, \hD787, \h0F42)

\* entry = (entry >> 1) ^ ((entry & 1) * m_polynomial), j more times
RECURSIVE Crc64_entry(_, _, _)
Crc64_entry(entry, polynomial, j) ==
    IF j = 0 THEN entry
    ELSE IF entry[1] % 2 = 1
    THEN Crc64_entry(xor64(shr64(entry, 1), polynomial), polynomial, j - 1)
    ELSE Crc64_entry(shr64(entry, 1), polynomial, j - 1)

\* tables[s][i + 1] is m_lookupTable[s - 1][i]; one more slice per step
RECURSIVE Crc64_slices(_)
Crc64_slices(tables) ==
    IF Len(tables) >= Crc64_MaxSlice THEN tables
    ELSE LET prev == tables[Len(tables)]
         IN  Crc64_slices(tables \o
                 <<SubSeq([i \in 1..256 |->
                              xor64(shr64(prev[i], 8),
                                    tables[1][(prev[i][1] % 256) + 1])],
                          1, 256)>>)

\* void Crc64::initializeTable()
Crc64_initializeTable(o) ==
    [o EXCEPT !.m_lookupTable =
        Crc64_slices(<<SubSeq([i \in 1..256 |->
                                 Crc64_entry(U64(i - 1), o.m_polynomial, 8)],
                             1, 256)>>)]

Crc64_initialize(o) == [o EXCEPT !.m_hash = o.m_seed, !.m_hashValue = <<>>]

\* Crc64::Crc64(polynomial, seed): initialize(), then initializeTable() fills
\* every entry of m_lookupTable
Crc64_Crc64(polynomial, seed) ==
    Crc64_initializeTable(
        Crc64_initialize([cls |-> "Crc64", m_hashValue |-> <<>>,
                        m_polynomial |-> polynomial, m_seed |-> seed,
                        m_hash |-> Zero64, m_lookupTable |-> <<>>]))

\* crc = m_lookupTable[0][...] ^ ... ^ m_lookupTable[15][...]: table t - 1
\* is indexed by byte 16 - t of x, the 16 bytes read with crc mixed in
Crc64_lookup(T, x, t) == T[t][x[17 - t] + 1]
\* the lookups in the four tables from t on
Crc64_lookups4(T, x, t) ==
    xor64(xor64(Crc64_lookup(T, x, t), Crc64_lookup(T, x, t + 1)),
          xor64(Crc64_lookup(T, x, t + 2), Crc64_lookup(T, x, t + 3)))
\* the lookups in the Crc64_MaxSlice tables from t = 1 on
Crc64_lookups(T, x, t) ==
    xor64(xor64(Crc64_lookups4(T, x, t), Crc64_lookups4(T, x, t + 4)),
          xor64(Crc64_lookups4(T, x, t + 8), Crc64_lookups4(T, x, t + 12)))
\* one pass of the inner loop: 16 bytes at mem + p
Crc64_slice16(T, crc, mem, p) ==
    Crc64_lookups(T, Bytes64(xor64(GET64BITS(mem, p), crc))
                     \o SubSeq(mem, p + 9, p + 16), 1)

\* for (unrolling = 0; unrolling < Unroll; unrolling++)
\* r = <<crc, currentByte (offset into mem), numBytes>>, with the 16 bytes
\* of the pass in numBytes
RECURSIVE Crc64_unroll(_, _, _, _)
Crc64_unroll(T, mem, r, unrolling) ==
    IF unrolling >= 4 \/ r[3] < 16 THEN r
    ELSE Crc64_unroll(T, mem, <<Crc64_slice16(T, r[1], mem, r[2]), r[2] + 16,
                               r[3] - 16>>, unrolling + 1)
\* while (numBytes >= BytesAtOnce)
RECURSIVE Crc64_bytesAtOnce(_, _, _)
Crc64_bytesAtOnce(T, mem, r) ==
    IF r[3] < 64 THEN r
    ELSE Crc64_bytesAtOnce(T, mem, Crc64_unroll(T, mem, r, 0))

\* remaining 1 to 63 bytes (standard algorithm)
RECURSIVE Crc64_remaining(_, _, _)
Crc64_remaining(T, mem, r) ==
    IF r[3] = 0 THEN r
    ELSE Crc64_remaining(T, mem,
             <<xor64(shr64(r[1], 8),
                     T[1][Xor8(r[1][1] % 256, mem[r[2] + 1]) + 1]),
               r[2] + 1, r[3] - 1>>)

Crc64_hashCore(o, data, dataLength, startIndex) ==
    [o EXCEPT !.m_hash =
        not64(Crc64_remaining(o.m_lookupTable, data,
                  Crc64_bytesAtOnce(o.m_lookupTable, data,
                      <<not64(o.m_hash), startIndex, dataLength>>))[1])]

Crc64_hashFinal(o) == [obj |-> o, v |-> BigEndianBytes64(o.m_hash)]

(***************************************************************************)
(* XxHash32                                                                *)
(***************************************************************************)
XxHash32_Prime1 == W(\h9e37, \h79b1)
XxHash32_Prime2 == W(\h85eb, \hca77)
XxHash32_Prime3 == W(\hc2b2, \hae3d)
XxHash32_Prime4 == W(\h27d4, \heb2f)
XxHash32_Prime5 == W(\h1656, \h67b1)
XxHash32_MaxBufferSize == 16
XxHash32_hashSize == 32

\* void XxHash32::process(data, state0, state1, state2, state3), data = mem + p
XxHash32_process(mem, p, state) ==
    SubSeq([i \in 1..4 |->
               mul32(rotateLeft32(add32(state[i],
                                        mul32(GET32BITS(mem, p + (4 * (i - 1))),
                                              XxHash32_Prime2)), 13),
                     XxHash32_Prime1)],
           1, 4)

XxHash32_initialize(o) ==
    [o EXCEPT !.m_state = <<add32(add32(o.m_seed, XxHash32_Prime1), XxHash32_Prime2),
                            add32(o.m_seed, XxHash32_Prime2),
                            o.m_seed,
                            sub32(o.m_seed, XxHash32_Prime1)>>,
              !.m_bufferSize = 0, !.m_totalLength = 0, !.m_hashValue = <<>>,
              !.m_buffer = Zeros(XxHash32_MaxBufferSize)]

XxHash32_XxHash32(seed) ==
    XxHash32_initialize([cls |-> "XxHash32", m_hashValue |-> <<>>, m_seed |-> seed,
                        m_state |-> <<Zero32, Zero32, Zero32, Zero32>>,
                        m_buffer |-> IndeterminateBytes(XxHash32_MaxBufferSize),
                        m_bufferSize |-> 0, m_totalLength |-> 0])

\* while (current <= stopBlock) { process(current, s0, s1, s2, s3); ... }
\* r = <<<<s0, s1, s2, s3>>, current>>, current an offset into data
RECURSIVE XxHash32_blocks(_, _, _)
XxHash32_blocks(data, stopBlock, r) ==
    IF r[2] > stopBlock THEN r
    ELSE XxHash32_blocks(data, stopBlock,
                        <<XxHash32_process(data, r[2], r[1]),
                          r[2] + XxHash32_MaxBufferSize>>)

\* some data left from previous update ?  Then the buffer is filled up from
\* data and processed.
XxHash32_fill(o, data, startIndex) ==
    IF o.m_bufferSize > 0
    THEN [o EXCEPT !.m_buffer = WriteBytes(@, o.m_bufferSize, data, startIndex,
                                           XxHash32_MaxBufferSize - o.m_bufferSize),
                   !.m_state = XxHash32_process(
                       WriteBytes(o.m_buffer, o.m_bufferSize, data, startIndex,
                                  XxHash32_MaxBufferSize - o.m_bufferSize), 0, @)]
    ELSE o
\* copy remainder to temporary buffer; r is the state and the position after
\* the full blocks
XxHash32_keep(o, data, dataLength, stop, r) ==
    [o EXCEPT !.m_totalLength = @ + dataLength,
              !.m_state = r[1],
              !.m_bufferSize = stop - r[2],
              !.m_buffer = CopyInto(@, data, r[2], stop - r[2])]
\* the full blocks of data from current on, o with the buffer processed
XxHash32_hashCoreFrom(o, data, dataLength, stop, current) ==
    XxHash32_keep(o, data, dataLength, stop,
                 XxHash32_blocks(data, stop - XxHash32_MaxBufferSize,
                                <<o.m_state, current>>))

XxHash32_hashCore(o, data, dataLength, startIndex) ==
    IF o.m_bufferSize + dataLength < XxHash32_MaxBufferSize
    THEN \* just add new data
         [BufferBytes(o, data, startIndex, dataLength)
             EXCEPT !.m_totalLength = @ + dataLength]
    ELSE XxHash32_hashCoreFrom(
             XxHash32_fill(o, data, startIndex), data, dataLength,
             startIndex + dataLength,
             startIndex + (IF o.m_bufferSize > 0
                           THEN XxHash32_MaxBufferSize - o.m_bufferSize ELSE 0))

\* at least 4 bytes left ? => eat 4 bytes per step
RECURSIVE XxHash32_eat4(_, _, _)
XxHash32_eat4(buffer, stop, r) ==
    IF r[2] + 4 > stop THEN r
    ELSE XxHash32_eat4(buffer, stop,
             <<mul32(rotateLeft32(add32(r[1], mul32(GET32BITS(buffer, r[2]),
                                                    XxHash32_Prime3)), 17),
                     XxHash32_Prime4),
               r[2] + 4>>)

\* take care of remaining 0..3 bytes, eat 1 byte per step
RECURSIVE XxHash32_eat1(_, _, _)
XxHash32_eat1(buffer, stop, r) ==
    IF r[2] = stop THEN r
    ELSE XxHash32_eat1(buffer, stop,
             <<mul32(rotateLeft32(add32(r[1], mul32(U32(buffer[r[2] + 1]),
                                                    XxHash32_Prime5)), 11),
                     XxHash32_Prime1),
               r[2] + 1>>)

\* a faulty fold: the lanes are folded whatever the total length is
XxHash32_fold_Always(o) ==
    add32(U32(o.m_totalLength),
          add32(add32(add32(rotateLeft32(o.m_state[1], 1),
                            rotateLeft32(o.m_state[2], 7)),
                      rotateLeft32(o.m_state[3], 12)),
                rotateLeft32(o.m_state[4], 18)))

\* fold 128 bit state into one single 32 bit value
XxHash32_fold(o) ==
    IF o.m_totalLength >= XxHash32_MaxBufferSize
    THEN add32(U32(o.m_totalLength),
               add32(add32(add32(rotateLeft32(o.m_state[1], 1),
                                 rotateLeft32(o.m_state[2], 7)),
                           rotateLeft32(o.m_state[3], 12)),
                     rotateLeft32(o.m_state[4], 18)))
    ELSE add32(U32(o.m_totalLength), add32(o.m_state[3], XxHash32_Prime5))

\* mix bits
XxHash32_mixBits(result) ==
    XorShr32(mul32(XorShr32(mul32(XorShr32(result, 15), XxHash32_Prime2),
                            13),
                   XxHash32_Prime3), 16)

XxHash32_hashFinal(o) ==
    [obj |-> o,
     v |-> BigEndianBytes32(XxHash32_mixBits(
               XxHash32_eat1(o.m_buffer, o.m_bufferSize,
                   XxHash32_eat4(o.m_buffer, o.m_bufferSize,
                                 <<XxHash32_fold(o), 0>>))[1]))]

(***************************************************************************)
(* XxHash64                                                                *)
(***************************************************************************)
XxHash64_Prime1 == W64(\h9e37, \h79b1, \h85eb, \hca87)
XxHash64_Prime2 == W64(\hc2b2, \hae3d, \h27d4, \heb4f)
XxHash64_Prime3 == W64(\h1656, \h67b1, \h9e37, \h79f9)
XxHash64_Prime4 == W64(\h85eb, \hca77, \hc2b2, \hae63)
XxHash64_Prime5 == W64(\h27d4, \heb2f, \h1656, \h67c5)
XxHash64_MaxBufferSize == 32
\* static const std::size_t m_hashSize = std::numeric_limits<uint32_t>::digits
XxHash64_hashSize == 32

\* uint64_t XxHash64::processSingle(previous, input)
XxHash64_processSingle(previous, input) ==
    mul64(rotateLeft64(add64(previous, mul64(input, XxHash64_Prime2)), 31),
          XxHash64_Prime1)

\* void XxHash64::process(data, state0, state1, state2, state3), data = mem + p
XxHash64_process(mem, p, state) ==
    SubSeq([i \in 1..4 |->
               XxHash64_processSingle(state[i], GET64BITS(mem, p + (8 * (i - 1))))],
           1, 4)

XxHash64_initialize(o) ==
    [o EXCEPT !.m_state = <<add64(add64(o.m_seed, XxHash64_Prime1), XxHash64_Prime2),
                            add64(o.m_seed, XxHash64_Prime2),
                            o.m_seed,
                            sub64(o.m_seed, XxHash64_Prime1)>>,
              !.m_bufferSize = 0, !.m_totalLength = 0, !.m_hashValue = <<>>,
              !.m_buffer = Zeros(XxHash64_MaxBufferSize)]

XxHash64_XxHash64(seed) ==
    XxHash64_initialize([cls |-> "XxHash64", m_hashValue |-> <<>>, m_seed |-> seed,
                        m_state |-> <<Zero64, Zero64, Zero64, Zero64>>,
                        m_buffer |-> IndeterminateBytes(XxHash64_MaxBufferSize),
                        m_bufferSize |-> 0, m_totalLength |-> 0])

\* while (current <= stopBlock) { process(current, s0, s1, s2, s3); ... }
\* r = <<<<s0, s1, s2, s3>>, current>>, current an offset into data
RECURSIVE XxHash64_blocks(_, _, _)
XxHash64_blocks(data, stopBlock, r) ==
    IF r[2] > stopBlock THEN r
    ELSE XxHash64_blocks(data, stopBlock,
                        <<XxHash64_process(data, r[2], r[1]),
                          r[2] + XxHash64_MaxBufferSize>>)

\* some data left from previous update ?  Then the buffer is filled up from
\* data and processed.
XxHash64_fill(o, data, startIndex) ==
    IF o.m_bufferSize > 0
    THEN [o EXCEPT !.m_buffer = WriteBytes(@, o.m_bufferSize, data, startIndex,
                                           XxHash64_MaxBufferSize - o.m_bufferSize),
                   !.m_state = XxHash64_process(
                       WriteBytes(o.m_buffer, o.m_bufferSize, data, startIndex,
                                  XxHash64_MaxBufferSize - o.m_bufferSize), 0, @)]
    ELSE o
\* copy remainder to temporary buffer; r is the state and the position after
\* the full blocks
XxHash64_keep(o, data, dataLength, stop, r) ==
    [o EXCEPT !.m_totalLength = @ + dataLength,
              !.m_state = r[1],
              !.m_bufferSize = stop - r[2],
              !.m_buffer = CopyInto(@, data, r[2], stop - r[2])]
\* the full blocks of data from current on, o with the buffer processed
XxHash64_hashCoreFrom(o, data, dataLength, stop, current) ==
    XxHash64_keep(o, data, dataLength, stop,
                 XxHash64_blocks(data, stop - XxHash64_MaxBufferSize,
                                <<o.m_state, current>>))

XxHash64_hashCore(o, data, dataLength, startIndex) ==
    IF o.m_bufferSize + dataLength < XxHash64_MaxBufferSize
    THEN \* just add new data
         [BufferBytes(o, data, startIndex, dataLength)
             EXCEPT !.m_totalLength = @ + dataLength]
    ELSE XxHash64_hashCoreFrom(
             XxHash64_fill(o, data, startIndex), data, dataLength,
             startIndex + dataLength,
             startIndex + (IF o.m_bufferSize > 0
                           THEN XxHash64_MaxBufferSize - o.m_bufferSize ELSE 0))

\* at least 8 bytes left ? => eat 8 bytes per step
RECURSIVE XxHash64_eat8(_, _, _)
XxHash64_eat8(buffer, stop, r) ==
    IF r[2] + 8 > stop THEN r
    ELSE XxHash64_eat8(buffer, stop,
             <<add64(mul64(rotateLeft64(
                               xor64(r[1], XxHash64_processSingle(
                                               Zero64, GET64BITS(buffer, r[2]))),
                               27),
                           XxHash64_Prime1),
                     XxHash64_Prime4),
               r[2] + 8>>)

\* 4 bytes left ? => eat those
XxHash64_eat4(buffer, stop, r) ==
    IF r[2] + 4 > stop THEN r
    ELSE <<add64(mul64(rotateLeft64(
                           xor64(r[1], mul64(GET32BITS(buffer, r[2]) \o <<0, 0>>,
                                             XxHash64_Prime1)),
                           23),
                       XxHash64_Prime2),
                 XxHash64_Prime3),
           r[2] + 4>>

\* take care of remaining 0..3 bytes, eat 1 byte per step
RECURSIVE XxHash64_eat1(_, _, _)
XxHash64_eat1(buffer, stop, r) ==
    IF r[2] = stop THEN r
    ELSE XxHash64_eat1(buffer, stop,
             <<mul64(rotateLeft64(xor64(r[1], mul64(U64(buffer[r[2] + 1]),
                                                    XxHash64_Prime5)), 11),
                     XxHash64_Prime1),
               r[2] + 1>>)

\* result = (result ^ processSingle(0, state)) * Prime1 + Prime4
XxHash64_merge(result, state) ==
    add64(mul64(xor64(result, XxHash64_processSingle(Zero64, state)),
                XxHash64_Prime1),
          XxHash64_Prime4)

\* the four statements that merge the lanes into result, one after the other;
\* r = <<result, the lane to merge next>>
RECURSIVE XxHash64_merges(_, _)
XxHash64_merges(r, state) ==
    IF r[2] > Len(state) THEN r
    ELSE XxHash64_merges(<<XxHash64_merge(r[1], state[r[2]]), r[2] + 1>>, state)

\* fold 256 bit state into one single 64 bit value
XxHash64_fold(o) ==
    IF o.m_totalLength >= XxHash64_MaxBufferSize
    THEN XxHash64_merges(
             <<add64(add64(add64(rotateLeft64(o.m_state[1], 1),
                                 rotateLeft64(o.m_state[2], 7)),
                           rotateLeft64(o.m_state[3], 12)),
                     rotateLeft64(o.m_state[4], 18)), 1>>,
             o.m_state)[1]
    ELSE add64(o.m_state[3], XxHash64_Prime5)

\* mix bits: result ^= result >> 33; result *= Prime2; result ^= result >> 29;
\* result *= Prime3; result ^= result >> 32;
XxHash64_mixStatement(result, s) ==
    CASE s = 1 -> XorShr64(result, 33)
      [] s = 2 -> mul64(result, XxHash64_Prime2)
      [] s = 3 -> XorShr64(result, 29)
      [] s = 4 -> mul64(result, XxHash64_Prime3)
      [] s = 5 -> XorShr64(result, 32)
\* r = <<result, the statement to execute next>>
RECURSIVE XxHash64_mix(_)
XxHash64_mix(r) ==
    IF r[2] > 5 THEN r
    ELSE XxHash64_mix(<<XxHash64_mixStatement(r[1], r[2]), r[2] + 1>>)
XxHash64_mixBits(result) == XxHash64_mix(<<result, 1>>)[1]

\* a faulty hashFinal: the bytes of the temporary buffer are consumed
XxHash64_hashFinal_ConsumesBuffer(o) ==
    [obj |-> [o EXCEPT !.m_bufferSize = 0],
     v |-> BigEndianBytes64(XxHash64_mixBits(
               XxHash64_eat1(o.m_buffer, o.m_bufferSize,
                   XxHash64_eat4(o.m_buffer, o.m_bufferSize,
                       XxHash64_eat8(o.m_buffer, o.m_bufferSize,
                           <<add64(XxHash64_fold(o), U64(o.m_totalLength)),
                             0>>)))[1]))]

XxHash64_hashFinal(o) ==
    [obj |-> o,
     v |-> BigEndianBytes64(XxHash64_mixBits(
               XxHash64_eat1(o.m_buffer, o.m_bufferSize,
                   XxHash64_eat4(o.m_buffer, o.m_bufferSize,
                       XxHash64_eat8(o.m_buffer, o.m_bufferSize,
                           <<add64(XxHash64_fold(o), U64(o.m_totalLength)),
                             0>>)))[1]))]

(***************************************************************************)
(* Adler32 (adler32.hpp)                                                   *)
(***************************************************************************)
Adler32_hashSize == 32
Adler32_m_modAdler == 65521
Adler32_m_nmax == 5552

Adler32_initialize(o) == [o EXCEPT !.m_hash = W(0, 1), !.m_hashValue = <<>>]
Adler32_Adler32 == Adler32_initialize([cls |-> "Adler32", m_hashValue |-> <<>>,
                                       m_hash |-> W(0, 1)])

\* x % m for a uint32_t x and 0 < m < 2^16: 2^16 x[2] + x[1] is congruent to
\* (x[2] % m) (2^16 % m) + x[1]
Mod32(x, m) == U32((((x[2] % m) * (65536 % m)) + x[1]) % m)
\* x >= m for a uint32_t x and 0 < m < 2^16
AtLeast32(x, m) == x[2] > 0 \/ x[1] >= m

\* DO1: a += (buf)[i]; b += a; for k bytes in a row (DO16 is k = 16, the
\* do-while loop is k < 16).  r = <<a, b, current>>, a and b of type uint32_t;
\* current stays below the end of the data
RECURSIVE Adler32_DO(_, _, _)
Adler32_DO(data, r, k) ==
    IF k = 0 \/ r[3] >= Len(data) THEN r
    ELSE Adler32_DO(data,
                    <<add32(r[1], U32(data[r[3] + 1])),
                      add32(r[2], add32(r[1], U32(data[r[3] + 1]))),
                      r[3] + 1>>,
                    k - 1)
\* n times DO16(current); current += 16; r = <<a, b, current>>
RECURSIVE Adler32_DO16(_, _, _)
Adler32_DO16(data, r, n) ==
    IF n = 0 \/ r[3] >= Len(data) THEN r
    ELSE Adler32_DO16(data, Adler32_DO(data, r, 16), n - 1)
\* while (k >= 16) { DO16(current); current += 16; k -= 16; } and the
\* do-while loop for the k < 16 bytes left.  r = <<a, b, current, k>>; the
\* passes of the while loop are evaluated 24 at a time
RECURSIVE Adler32_sum(_, _)
Adler32_sum(data, r) ==
    IF r[4] >= 16 * 24
    THEN LET d == Adler32_DO16(data, <<r[1], r[2], r[3]>>, 24)
         IN  Adler32_sum(data, <<d[1], d[2], d[3], r[4] - (16 * 24)>>)
    ELSE LET d == Adler32_DO(data,
                             Adler32_DO16(data, <<r[1], r[2], r[3]>>,
                                          r[4] \div 16),
                             r[4] % 16)
         IN  <<d[1], d[2], d[3], 0>>

\* a faulty loop: k = length, the sums are reduced once, at the end
RECURSIVE Adler32_chunks_Undeferred(_, _)
Adler32_chunks_Undeferred(data, r) ==
    IF r[4] = 0 THEN r
    ELSE LET k == r[4]
             s == Adler32_sum(data, <<r[1], r[2], r[3], k>>)
         IN  Adler32_chunks_Undeferred(
                 data, <<Mod32(s[1], Adler32_m_modAdler),
                         Mod32(s[2], Adler32_m_modAdler),
                         s[3], r[4] - k>>)

\* while (length > 0) { k = min(length, m_nmax); ...; a %= m_modAdler; ... }
\* r = <<a, b, current, length>>
RECURSIVE Adler32_chunks(_, _)
Adler32_chunks(data, r) ==
    IF r[4] = 0 THEN r
    ELSE LET k == Min(r[4], Adler32_m_nmax)
             s == Adler32_sum(data, <<r[1], r[2], r[3], k>>)
         IN  Adler32_chunks(data, <<Mod32(s[1], Adler32_m_modAdler),
                                    Mod32(s[2], Adler32_m_modAdler),
                                    s[3], r[4] - k>>)

\* a null data pointer: the block that holds no byte (-1 is no byte value)
Null == <<-1>>

\* m_hash = a | (b << 16)
Adler32_join(o, a, b) == [o EXCEPT !.m_hash = or32(a, shl32(b, 16))]

Adler32_hashCore(o, data, dataLength, startIndex) ==
    LET a == <<o.m_hash[1], 0>>        \* m_hash & 0xFFFF
        b == <<o.m_hash[2], 0>>        \* (m_hash >> 16) & 0xFFFF
    IN  IF data = Null
        THEN [o EXCEPT !.m_hash = W(0, 1)]
        ELSE IF dataLength = 1
        THEN LET a1 == add32(a, U32(data[startIndex + 1]))
                 a2 == IF AtLeast32(a1, Adler32_m_modAdler)
                       THEN sub32(a1, U32(Adler32_m_modAdler)) ELSE a1
                 b1 == add32(b, a2)
                 b2 == IF AtLeast32(b1, Adler32_m_modAdler)
                       THEN sub32(b1, U32(Adler32_m_modAdler)) ELSE b1
             IN  Adler32_join(o, a2, b2)
        ELSE LET r == Adler32_chunks(data, <<a, b, startIndex, dataLength>>)
             IN  Adler32_join(o, r[1], r[2])

Adler32_hashFinal(o) == [obj |-> o, v |-> BigEndianBytes32(o.m_hash)]

(***************************************************************************)
(* APHash32 (aphash32.hpp)                                                 *)
(***************************************************************************)
APHash32_hashSize == 32
APHash32_m_seed == W(\hAAAA, \hAAAA)

APHash32_initialize(o) ==
    [o EXCEPT !.m_hash = APHash32_m_seed, !.m_hashValue = <<>>]
APHash32_APHash32 ==
    APHash32_initialize([cls |-> "APHash32", m_hashValue |-> <<>>,
                         m_hash |-> Zero32])

\* r = <<m_hash, i, current>>; i is the index of the byte within this call
RECURSIVE APHash32_loop(_, _, _)
APHash32_loop(data, dataLength, r) ==
    IF r[2] >= dataLength THEN r
    ELSE LET h == r[1]
             c == U32(data[r[3] + 1])
             t == IF r[2] % 2 = 0
                  THEN xor32(xor32(shl32(h, 7), c), shr32(h, 3))
                  ELSE not32(xor32(xor32(shl32(h, 11), c), shr32(h, 5)))
         IN  APHash32_loop(data, dataLength,
                           <<xor32(h, t), r[2] + 1, r[3] + 1>>)

APHash32_hashCore(o, data, dataLength, startIndex) ==
    [o EXCEPT !.m_hash = APHash32_loop(data, dataLength,
                                       <<o.m_hash, 0, startIndex>>)[1]]

APHash32_hashFinal(o) == [obj |-> o, v |-> BigEndianBytes32(o.m_hash)]

(***************************************************************************)
(* BKDRHash32 (bkdrhash32.hpp)                                             *)
(***************************************************************************)
BKDRHash32_hashSize == 32

BKDRHash32_initialize(o) == [o EXCEPT !.m_hash = Zero32, !.m_hashValue = <<>>]
BKDRHash32_BKDRHash32(seed) ==
    BKDRHash32_initialize([cls |-> "BKDRHash32", m_hashValue |-> <<>>,
                           m_seed |-> seed, m_hash |-> Zero32])

\* r = <<m_hash, i>>
RECURSIVE BKDRHash32_loop(_, _, _, _, _)
BKDRHash32_loop(seed, data, dataLength, startIndex, r) ==
    IF r[2] >= dataLength THEN r
    ELSE BKDRHash32_loop(seed, data, dataLength, startIndex,
             <<add32(mul32(r[1], seed), U32(data[startIndex + r[2] + 1])),
               r[2] + 1>>)

BKDRHash32_hashCore(o, data, dataLength, startIndex) ==
    [o EXCEPT !.m_hash = BKDRHash32_loop(o.m_seed, data, dataLength,
                                         startIndex, <<o.m_hash, 0>>)[1]]

BKDRHash32_hashFinal(o) == [obj |-> o, v |-> BigEndianBytes32(o.m_hash)]

(***************************************************************************)
(* Djb2Hash32 (djb2hash32.hpp)                                             *)
(***************************************************************************)
Djb2Hash32_hashSize == 32
DJB2_DEFAULT_SEED == U32(5381)

Djb2Hash32_initialize(o) ==
    [o EXCEPT !.m_hash = o.m_defaultSeed, !.m_hashValue = <<>>]
Djb2Hash32_Djb2Hash32(defaultSeed) ==
    Djb2Hash32_initialize([cls |-> "Djb2Hash32", m_hashValue |-> <<>>,
                           m_defaultSeed |-> defaultSeed, m_hash |-> Zero32])

\* r = <<m_hash, i, current>>
RECURSIVE Djb2Hash32_loop(_, _, _)
Djb2Hash32_loop(data, dataLength, r) ==
    IF r[2] >= dataLength THEN r
    ELSE Djb2Hash32_loop(data, dataLength,
             <<add32(add32(shl32(r[1], 5), r[1]), U32(data[r[3] + 1])),
               r[2] + 1, r[3] + 1>>)

Djb2Hash32_hashCore(o, data, dataLength, startIndex) ==
    [o EXCEPT !.m_hash = Djb2Hash32_loop(data, dataLength,
                                         <<o.m_hash, 0, startIndex>>)[1]]

Djb2Hash32_hashFinal(o) == [obj |-> o, v |-> BigEndianBytes32(o.m_hash)]

(***************************************************************************)
(* JOAATHash32 (joaathash32.hpp)                                           *)
(***************************************************************************)
JOAATHash32_hashSize == 32

JOAATHash32_initialize(o) == [o EXCEPT !.m_hash = Zero32, !.m_hashValue = <<>>]
JOAATHash32_JOAATHash32 ==
    JOAATHash32_initialize([cls |-> "JOAATHash32", m_hashValue |-> <<>>,
                            m_hash |-> Zero32])

\* r = <<m_hash, i, current>>
RECURSIVE JOAATHash32_loop(_, _, _)
JOAATHash32_loop(data, dataLength, r) ==
    IF r[2] >= dataLength THEN r
    ELSE JOAATHash32_loop(data, dataLength,
             <<XorShr32(AddShl32(add32(r[1], U32(data[r[3] + 1])), 10), 6),
               r[2] + 1, r[3] + 1>>)

JOAATHash32_hashCore(o, data, dataLength, startIndex) ==
    [o EXCEPT !.m_hash = JOAATHash32_loop(data, dataLength,
                                          <<o.m_hash, 0, startIndex>>)[1]]

\* m_hash after the final mixing is stored and returned
JOAATHash32_result(o, h) ==
    [obj |-> [o EXCEPT !.m_hash = h], v |-> BigEndianBytes32(h)]
JOAATHash32_hashFinal(o) ==
    JOAATHash32_result(o, AddShl32(XorShr32(AddShl32(o.m_hash, 3), 11), 15))

(***************************************************************************)
(* JSHash32 (jshash32.hpp)                                                 *)
(***************************************************************************)
JSHash32_hashSize == 32
JSHash32_m_seed == W(\h4E67, \hC6A7)

JSHash32_initialize(o) ==
    [o EXCEPT !.m_hash = JSHash32_m_seed, !.m_hashValue = <<>>]
JSHash32_JSHash32 ==
    JSHash32_initialize([cls |-> "JSHash32", m_hashValue |-> <<>>,
                         m_hash |-> Zero32])

\* r = <<m_hash, i, current>>
RECURSIVE JSHash32_loop(_, _, _)
JSHash32_loop(data, dataLength, r) ==
    IF r[2] >= dataLength THEN r
    ELSE JSHash32_loop(data, dataLength,
             <<xor32(r[1], add32(add32(shl32(r[1], 5), U32(data[r[3] + 1])),
                                 shr32(r[1], 2))),
               r[2] + 1, r[3] + 1>>)

JSHash32_hashCore(o, data, dataLength, startIndex) ==
    [o EXCEPT !.m_hash = JSHash32_loop(data, dataLength,
                                       <<o.m_hash, 0, startIndex>>)[1]]

JSHash32_hashFinal(o) == [obj |-> o, v |-> BigEndianBytes32(o.m_hash)]

(***************************************************************************)
(* PJWHash32 (pjwhash32.hpp)                                               *)
(***************************************************************************)
PJWHash32_hashSize == 32
PJWHash32_BitsInUnsignedInt == 32
PJWHash32_ThreeQuarters == (PJWHash32_BitsInUnsignedInt * 3) \div 4
PJWHash32_OneEighth == PJWHash32_BitsInUnsignedInt \div 8
PJWHash32_HighBits ==
    shl32(W(\hFFFF, \hFFFF), PJWHash32_BitsInUnsignedInt - PJWHash32_OneEighth)

PJWHash32_initialize(o) == [o EXCEPT !.m_hash = Zero32, !.m_hashValue = <<>>]
PJWHash32_PJWHash32 ==
    PJWHash32_initialize([cls |-> "PJWHash32", m_hashValue |-> <<>>,
                          m_hash |-> Zero32])

\* if ((test = m_hash & HighBits) != 0)
\*     m_hash = ((m_hash ^ (test >> ThreeQuarters)) & (~HighBits));
PJWHash32_test(hash, highBits) ==
    IF and32(hash, highBits) # Zero32
    THEN and32(xor32(hash, shr32(and32(hash, highBits),
                                 PJWHash32_ThreeQuarters)),
               not32(highBits))
    ELSE hash
\* r = <<m_hash, i, current>>
RECURSIVE PJWHash32_loop(_, _, _)
PJWHash32_loop(data, dataLength, r) ==
    IF r[2] >= dataLength THEN r
    ELSE PJWHash32_loop(data, dataLength,
             <<PJWHash32_test(add32(shl32(r[1], PJWHash32_OneEighth),
                                    U32(data[r[3] + 1])),
                              PJWHash32_HighBits),
               r[2] + 1, r[3] + 1>>)

PJWHash32_hashCore(o, data, dataLength, startIndex) ==
    [o EXCEPT !.m_hash = PJWHash32_loop(data, dataLength,
                                        <<o.m_hash, 0, startIndex>>)[1]]

PJWHash32_hashFinal(o) == [obj |-> o, v |-> BigEndianBytes32(o.m_hash)]

(***************************************************************************)
(* SDBMHash32 (sdbmhash32.hpp)                                             *)
(***************************************************************************)
SDBMHash32_hashSize == 32

SDBMHash32_initialize(o) == [o EXCEPT !.m_hash = Zero32, !.m_hashValue = <<>>]
SDBMHash32_SDBMHash32 ==
    SDBMHash32_initialize([cls |-> "SDBMHash32", m_hashValue |-> <<>>,
                           m_hash |-> Zero32])

\* r = <<m_hash, i>>
RECURSIVE SDBMHash32_loop(_, _, _, _)
SDBMHash32_loop(data, dataLength, startIndex, r) ==
    IF r[2] >= dataLength THEN r
    ELSE SDBMHash32_loop(data, dataLength, startIndex,
             <<sub32(add32(add32(U32(data[startIndex + r[2] + 1]),
                                 shl32(r[1], 6)),
                           shl32(r[1], 16)),
                     r[1]),
               r[2] + 1>>)

SDBMHash32_hashCore(o, data, dataLength, startIndex) ==
    [o EXCEPT !.m_hash = SDBMHash32_loop(data, dataLength, startIndex,
                                         <<o.m_hash, 0>>)[1]]

SDBMHash32_hashFinal(o) == [obj |-> o, v |-> BigEndianBytes32(o.m_hash)]

(***************************************************************************)
(* SuperFastHash32 (superfasthash32.hpp)                                   *)
(***************************************************************************)
SuperFastHash32_hashSize == 32

SuperFastHash32_initialize(o) ==
    [o EXCEPT !.m_hash = Zero32, !.m_hashValue = <<>>]
SuperFastHash32_SuperFastHash32 ==
    SuperFastHash32_initialize([cls |-> "SuperFastHash32",
                                m_hashValue |-> <<>>, m_hash |-> Zero32])

\* the value of an int8_t converted to uint32_t (sign extension)
SignExtend8(b) == IF b >= 128 THEN <<65280 + b, 65535>> ELSE <<b, 0>>

\* temp = (GET16BITS(current + 2) << 11) ^ m_hash;
\* m_hash = (m_hash << 16) ^ temp;  m_hash += m_hash >> 11;
SuperFastHash32_mix(hash, next) ==
    AddShr32(xor32(shl32(hash, 16), xor32(shl32(next, 11), hash)), 11)
\* the main loop, 4 bytes per pass; r = <<m_hash, current, length>>
RECURSIVE SuperFastHash32_loop(_, _)
SuperFastHash32_loop(data, r) ==
    IF r[3] = 0 THEN r
    ELSE SuperFastHash32_loop(data,
             <<SuperFastHash32_mix(add32(r[1], <<GET16BITS(data, r[2]), 0>>),
                                   <<GET16BITS(data, r[2] + 2), 0>>),
               r[2] + 4, r[3] - 1>>)

\* switch (rem): the end cases.  The left shift of a negative int in case 3
\* is the two's complement shift that GCC and Clang produce.
SuperFastHash32_rem(data, current, rem, hash) ==
    CASE rem = 3 ->
           AddShr32(xor32(XorShl32(add32(hash, <<GET16BITS(data, current), 0>>),
                                   16),
                          shl32(SignExtend8(data[current + 3]), 18)), 11)
      [] rem = 2 ->
           AddShr32(XorShl32(add32(hash, <<GET16BITS(data, current), 0>>), 11),
                    17)
      [] rem = 1 ->
           AddShr32(XorShl32(add32(hash, SignExtend8(data[current + 1])), 10), 1)
      [] OTHER -> hash

\* r is the hash and the position after the main loop
SuperFastHash32_end(o, data, rem, r) ==
    [o EXCEPT !.m_hash = SuperFastHash32_rem(data, r[2], rem, r[1])]
SuperFastHash32_hashCore(o, data, dataLength, startIndex) ==
    SuperFastHash32_end(o, data, dataLength % 4,
        SuperFastHash32_loop(data,
            \* if (m_hash == 0) m_hash = static_cast<uint32_t>(length);
            <<IF o.m_hash = Zero32 THEN U32(dataLength) ELSE o.m_hash,
              startIndex, dataLength \div 4>>))

\* m_hash after the final mixing is stored and returned
SuperFastHash32_result(o, h) ==
    [obj |-> [o EXCEPT !.m_hash = h], v |-> BigEndianBytes32(h)]
\* Force "avalanching" of final 127 bits
SuperFastHash32_hashFinal(o) ==
    SuperFastHash32_result(o,
        AddShr32(XorShl32(AddShr32(XorShl32(AddShr32(XorShl32(o.m_hash, 3), 5),
                                            4), 17), 25), 6))

(***************************************************************************)
(* FnvBase (fnv.hpp) and Fnv1aHash (fnv1ahash.hpp).  The widths 128, 256   *)
(* and 512 compute in boost::multiprecision integers and are outside this  *)
(* model: bits is 32, 64 or a value that is no enumerator of FnvBits.      *)
(***************************************************************************)
FnvBase_fnvPrime32 == W(\h0100, \h0193)
FnvBase_offsetBasis32 == W(\h811C, \h9DC5)
FnvBase_fnvPrime64 == W64(\h0000, \h0100, \h0000, \h01B3)
FnvBase_offsetBasis64 == W64(\hCBF2, \h9CE4, \h8422, \h2325)

\* an indeterminate uint32_t / uint64_t
Indeterminate32 == W(\hCDCD, \hCDCD)
Indeterminate64 == W64(\hCDCD, \hCDCD, \hCDCD, \hCDCD)

FnvBase_hashSize(o) == o.m_bits

FnvBase_initialize(o) ==
    CASE o.m_bits = 32 ->
           [o EXCEPT !.m_hashValue = <<>>, !.m_hash32 = FnvBase_offsetBasis32]
      [] o.m_bits = 64 ->
           [o EXCEPT !.m_hashValue = <<>>, !.m_hash64 = FnvBase_offsetBasis64]
      [] OTHER -> [o EXCEPT !.m_hashValue = <<>>]

\* FnvBase::FnvBase(const FnvBits &bits): bits is any value of uint16_t
FnvBase_FnvBase(cls, bits) ==
    FnvBase_initialize([cls |-> cls, m_hashValue |-> <<>>, m_bits |-> bits,
                        m_hash32 |-> Indeterminate32,
                        m_hash64 |-> Indeterminate64])

FnvBase_hashFinal(o) ==
    LET byteSize == FnvBase_hashSize(o) \div 8
    IN  [obj |-> o,
         v |-> CASE o.m_bits = 32 -> BigEndianBytes32(o.m_hash32)
                 [] o.m_bits = 64 -> BigEndianBytes64(o.m_hash64)
                 [] OTHER -> Zeros(byteSize)]

\* calcFnv1aHash<uint32_t>; r = <<hashValue, i, current>>
RECURSIVE calcFnv1aHash32(_, _, _)
calcFnv1aHash32(data, dataLength, r) ==
    IF r[2] >= dataLength THEN r
    ELSE calcFnv1aHash32(data, dataLength,
             <<mul32(xor32(U32(data[r[3] + 1]), r[1]), FnvBase_fnvPrime32),
               r[2] + 1, r[3] + 1>>)

\* calcFnv1aHash<uint64_t>
RECURSIVE calcFnv1aHash64(_, _, _)
calcFnv1aHash64(data, dataLength, r) ==
    IF r[2] >= dataLength THEN r
    ELSE calcFnv1aHash64(data, dataLength,
             <<mul64(xor64(U64(data[r[3] + 1]), r[1]), FnvBase_fnvPrime64),
               r[2] + 1, r[3] + 1>>)

Fnv1aHash_Fnv1aHash(bits) == FnvBase_FnvBase("Fnv1aHash", bits)

Fnv1aHash_hashCore(o, data, dataLength, startIndex) ==
    CASE o.m_bits = 32 ->
           [o EXCEPT !.m_hash32 =
               calcFnv1aHash32(data, dataLength, <<@, 0, startIndex>>)[1]]
      [] o.m_bits = 64 ->
           [o EXCEPT !.m_hash64 =
               calcFnv1aHash64(data, dataLength, <<@, 0, startIndex>>)[1]]
      [] OTHER -> o

(***************************************************************************)
(* HashAlgorithm (hashalgorithm.hpp): the virtual interface, dispatched on *)
(* the dynamic type of the instance, and the computeHash drivers.          *)
(***************************************************************************)
hashSize(o) ==
    CASE o.cls = "Md5" -> Md5_hashSize
      [] o.cls = "Sha1" -> Sha1_hashSize
      [] o.cls = "Sha256" -> Sha256_hashSize
      [] o.cls = "Sha3" -> Sha3_hashSize(o)
      [] o.cls = "Crc32" -> Crc32_hashSize
      [] o.cls = "Crc64" -> Crc64_hashSize
      [] o.cls = "XxHash32" -> XxHash32_hashSize
      [] o.cls = "XxHash64" -> XxHash64_hashSize
      [] o.cls = "Adler32" -> Adler32_hashSize
      [] o.cls = "APHash32" -> APHash32_hashSize
      [] o.cls = "BKDRHash32" -> BKDRHash32_hashSize
      [] o.cls = "Djb2Hash32" -> Djb2Hash32_hashSize
      [] o.cls = "JOAATHash32" -> JOAATHash32_hashSize
      [] o.cls = "JSHash32" -> JSHash32_hashSize
      [] o.cls = "PJWHash32" -> PJWHash32_hashSize
      [] o.cls = "SDBMHash32" -> SDBMHash32_hashSize
      [] o.cls = "SuperFastHash32" -> SuperFastHash32_hashSize
      [] o.cls = "Fnv1aHash" -> FnvBase_hashSize(o)

initialize(o) ==
    CASE o.cls = "Md5" -> Md5_initialize(o)
      [] o.cls = "Sha1" -> Sha1_initialize(o)
      [] o.cls = "Sha256" -> Sha256_initialize(o)
      [] o.cls = "Sha3" -> Sha3_initialize(o)
      [] o.cls = "Crc32" -> Crc32_initialize(o)
      [] o.cls = "Crc64" -> Crc64_initialize(o)
      [] o.cls = "XxHash32" -> XxHash32_initialize(o)
      [] o.cls = "XxHash64" -> XxHash64_initialize(o)
      [] o.cls = "Adler32" -> Adler32_initialize(o)
      [] o.cls = "APHash32" -> APHash32_initialize(o)
      [] o.cls = "BKDRHash32" -> BKDRHash32_initialize(o)
      [] o.cls = "Djb2Hash32" -> Djb2Hash32_initialize(o)
      [] o.cls = "JOAATHash32" -> JOAATHash32_initialize(o)
      [] o.cls = "JSHash32" -> JSHash32_initialize(o)
      [] o.cls = "PJWHash32" -> PJWHash32_initialize(o)
      [] o.cls = "SDBMHash32" -> SDBMHash32_initialize(o)
      [] o.cls = "SuperFastHash32" -> SuperFastHash32_initialize(o)
      [] o.cls = "Fnv1aHash" -> FnvBase_initialize(o)

hashCore(o, data, dataLength, startIndex) ==
    CASE o.cls = "Md5" -> Md5_hashCore(o, data, dataLength, startIndex)
      [] o.cls = "Sha1" -> Sha1_hashCore(o, data, dataLength, startIndex)
      [] o.cls = "Sha256" -> Sha256_hashCore(o, data, dataLength, startIndex)
      [] o.cls = "Sha3" -> Sha3_hashCore(o, data, dataLength, startIndex)
      [] o.cls = "Crc32" -> Crc32_hashCore(o, data, dataLength, startIndex)
      [] o.cls = "Crc64" -> Crc64_hashCore(o, data, dataLength, startIndex)
      [] o.cls = "XxHash32" -> XxHash32_hashCore(o, data, dataLength, startIndex)
      [] o.cls = "XxHash64" -> XxHash64_hashCore(o, data, dataLength, startIndex)
      [] o.cls = "Adler32" -> Adler32_hashCore(o, data, dataLength, startIndex)
      [] o.cls = "APHash32" -> APHash32_hashCore(o, data, dataLength, startIndex)
      [] o.cls = "BKDRHash32" ->
           BKDRHash32_hashCore(o, data, dataLength, startIndex)
      [] o.cls = "Djb2Hash32" ->
           Djb2Hash32_hashCore(o, data, dataLength, startIndex)
      [] o.cls = "JOAATHash32" ->
           JOAATHash32_hashCore(o, data, dataLength, startIndex)
      [] o.cls = "JSHash32" -> JSHash32_hashCore(o, data, dataLength, startIndex)
      [] o.cls = "PJWHash32" -> PJWHash32_hashCore(o, data, dataLength, startIndex)
      [] o.cls = "SDBMHash32" ->
           SDBMHash32_hashCore(o, data, dataLength, startIndex)
      [] o.cls = "SuperFastHash32" ->
           SuperFastHash32_hashCore(o, data, dataLength, startIndex)
      [] o.cls = "Fnv1aHash" -> Fnv1aHash_hashCore(o, data, dataLength, startIndex)

\* the instance after the call and the returned byte vector: [obj, v]
hashFinal(o) ==
    CASE o.cls = "Md5" -> Md5_hashFinal(o)
      [] o.cls = "Sha1" -> Sha1_hashFinal(o)
      [] o.cls = "Sha256" -> Sha256_hashFinal(o)
      [] o.cls = "Sha3" -> Sha3_hashFinal(o)
      [] o.cls = "Crc32" -> Crc32_hashFinal(o)
      [] o.cls = "Crc64" -> Crc64_hashFinal(o)
      [] o.cls = "XxHash32" -> XxHash32_hashFinal(o)
      [] o.cls = "XxHash64" -> XxHash64_hashFinal(o)
      [] o.cls = "Adler32" -> Adler32_hashFinal(o)
      [] o.cls = "APHash32" -> APHash32_hashFinal(o)
      [] o.cls = "BKDRHash32" -> BKDRHash32_hashFinal(o)
      [] o.cls = "Djb2Hash32" -> Djb2Hash32_hashFinal(o)
      [] o.cls = "JOAATHash32" -> JOAATHash32_hashFinal(o)
      [] o.cls = "JSHash32" -> JSHash32_hashFinal(o)
      [] o.cls = "PJWHash32" -> PJWHash32_hashFinal(o)
      [] o.cls = "SDBMHash32" -> SDBMHash32_hashFinal(o)
      [] o.cls = "SuperFastHash32" -> SuperFastHash32_hashFinal(o)
      [] o.cls = "Fnv1aHash" -> FnvBase_hashFinal(o)

\* std::vector<uint8_t> HashAlgorithm::hashValue(): return m_hashValue;
hashValue(o) == o.m_hashValue

\* void HashAlgorithm::computeHashInternal(data, dataLength, startIndex)
\* m_hashValue = hashFinal(): r is what hashFinal leaves and returns
storeHashValue(r) == [r.obj EXCEPT !.m_hashValue = r.v]
computeHashInternal(o, data, dataLength, startIndex) ==
    storeHashValue(hashFinal(hashCore(initialize(o), data, dataLength,
                                      startIndex)))

\* std::vector<uint8_t> HashAlgorithm::computeHash(data, dataLength, index)
\* return m_hashValue;
returnHashValue(o) == [obj |-> o, v |-> o.m_hashValue]
computeHash(o, data, dataLength, index) ==
    returnHashValue(computeHashInternal(o, data, dataLength, index))

(***************************************************************************)
(* A std::istream: the bytes of its source, the read position, the         *)
(* position at which the source reports an error (NoError when it never    *)
(* does) and the state flags.  read(s, n) extracts up to n bytes: it sets  *)
(* eofbit and failbit when the source ends first, badbit when the source   *)
(* errs first.  gcount is the number of bytes extracted by the last read.  *)
(***************************************************************************)
NoError == -1

istream(bytes, errorAt, failed) ==
    [bytes |-> bytes, pos |-> 0, errorAt |-> errorAt, gcount |-> 0,
     fail |-> failed, eof |-> FALSE, bad |-> FALSE]

\* the extracted characters and the stream after input->read(buffer, n)
istream_read(s, n) ==
    LET limit == IF s.errorAt = NoError THEN Len(s.bytes)
                 ELSE Min(s.errorAt, Len(s.bytes))
        count == Min(n, limit - s.pos)
        short == count < n
    IN  [chars |-> SubSeq(s.bytes, s.pos + 1, s.pos + count),
         s |-> [s EXCEPT !.pos = @ + count, !.gcount = count,
                         !.bad = short /\ s.errorAt # NoError
                                       /\ s.errorAt < Len(s.bytes),
                         !.eof = short /\ ~(s.errorAt # NoError
                                            /\ s.errorAt < Len(s.bytes)),
                         !.fail = short]]

\* while (*input) { read; numBytesRead = gcount; hashCore(buffer, n, 0); }
\* r = <<instance, stream, buffer>>; buffer holds m_blockSizeBuffer chars, of
\* which hashCore reads the first numBytesRead
RECURSIVE computeHash_loop(_, _)
computeHash_loop(m_blockSizeBuffer, r) ==
    IF r[2].fail \/ r[2].bad THEN r
    ELSE LET rd == istream_read(r[2], m_blockSizeBuffer)
             buffer == rd.chars \o SubSeq(r[3], Len(rd.chars) + 1, Len(r[3]))
         IN  computeHash_loop(m_blockSizeBuffer,
                 <<hashCore(r[1], buffer, rd.s.gcount, 0), rd.s, buffer>>)

\* m_hashValue = hashFinal(); return m_hashValue;  with the stream s as the
\* loop left it
streamResult(f, s) == [obj |-> storeHashValue(f), v |-> f.v, s |-> s]
\* r is what the loop leaves: <<instance, stream, buffer>>
afterLoop(r) == streamResult(hashFinal(r[1]), r[2])

\* a faulty computeHash(std::istream&): initialize() before the test of the
\* stream
computeHashStream_InitializesFirst(o, instream, m_blockSizeBuffer) ==
    IF instream.fail \/ instream.bad
    THEN [obj |-> initialize(o), v |-> <<>>, s |-> instream]
    ELSE afterLoop(computeHash_loop(m_blockSizeBuffer,
                       <<initialize(o), [instream EXCEPT !.pos = 0],
                         Zeros(m_blockSizeBuffer)>>))

\* std::vector<uint8_t> HashAlgorithm::computeHash(std::istream &instream),
\* in a build with HASH_BLOCK_BUFFER_SIZE = m_blockSizeBuffer
computeHashStream(o, instream, m_blockSizeBuffer) ==
    IF instream.fail \/ instream.bad
    THEN [obj |-> o, v |-> <<>>, s |-> instream]
    ELSE afterLoop(computeHash_loop(m_blockSizeBuffer,
                       <<initialize(o), [instream EXCEPT !.pos = 0],
                         Zeros(m_blockSizeBuffer)>>))

(***************************************************************************)
(* The state machine: one algorithm instance and the client that drives    *)
(* it through the HashAlgorithm interface.                                 *)
(***************************************************************************)
VARIABLES
    id,       \* which instance of Instances the client constructed
    obj,      \* the instance: its data members
    fed,      \* bytes handed to hashCore since the last initialize()
    chunks,   \* hashCore calls since the last initialize()
    rets,     \* the byte vectors returned since the last initialize()
    last,     \* the member function the client called last
    reused,   \* the instance had been used before the last initialize()
    stream,   \* the std::istream of the last computeHash(std::istream&)
    memory,   \* the client's memory block
    threads   \* the worker threads of the client, each with its own instance

vars == <<id, obj, fed, chunks, rets, last, reused, stream, memory, threads>>

\* the digest widths the library documents for Sha3 (enum class Bits) and,
\* in a build without boost, for the Fnv classes (enum class FnvBits)
Sha3Bits == {224, 256, 384, 512}
FnvBits == {32, 64}

\* the instances a client can construct: every class with its default
\* constructor arguments, Sha3 and Fnv1aHash once per digest width, and once
\* with a width that is no enumerator (static_cast<Sha3::Bits>(320),
\* static_cast<FnvBits>(16)), which the constructors take as they take any
\* other value of uint16_t
Instances ==
    <<Md5_Md5, Sha1_Sha1, Sha256_Sha256,
      Sha3_Sha3(224), Sha3_Sha3(256), Sha3_Sha3(384), Sha3_Sha3(512),
      Crc32_Crc32(ZLIB_POLYNOMIAL, Zero32),
      Crc64_Crc64(ECMA_182_POLYNOMIAL, Zero64),
      XxHash32_XxHash32(Zero32), XxHash64_XxHash64(Zero64),
      Adler32_Adler32, APHash32_APHash32, BKDRHash32_BKDRHash32(U32(131)),
      Djb2Hash32_Djb2Hash32(DJB2_DEFAULT_SEED), JOAATHash32_JOAATHash32,
      JSHash32_JSHash32, PJWHash32_PJWHash32, SDBMHash32_SDBMHash32,
      SuperFastHash32_SuperFastHash32,
      Fnv1aHash_Fnv1aHash(32), Fnv1aHash_Fnv1aHash(64),
      Sha3_Sha3(320), Fnv1aHash_Fnv1aHash(16)>>

\* the number of bytes the algorithm consumes per step of its main loop:
\* the block size, or the unrolling width of a byte-wise loop
Stride(o) ==
    CASE o.cls \in {"Md5", "Sha1", "Sha256"} -> MD_BLOCK_SIZE
      [] o.cls = "Sha3" -> o.m_blockSize
      [] o.cls \in {"Crc32", "Crc64"} -> 64
      [] o.cls = "XxHash32" -> XxHash32_MaxBufferSize
      [] o.cls = "XxHash64" -> XxHash64_MaxBufferSize
      [] o.cls = "Adler32" -> 16
      [] OTHER -> 4

\* the client's memory block is PayloadBlocks strides and one byte long
PayloadBlocks == 1
PayloadLength(o) == PayloadBlocks * Stride(o) + 1

\* the client's memory block (every class reads a prefix of it)
Payload ==
    SubSeq([i \in 1..(PayloadBlocks * Sha3_MaxBlockSize + 1) |->
               ((i - 1) * 73 + 41) % 256],
           1, PayloadBlocks * Sha3_MaxBlockSize + 1)

\* the offsets of Payload at which the client may cut it into chunks: around
\* the first stride boundary, and the end
CutSeq(o) ==
    <<0, 1, Stride(o) - 1, Stride(o), Stride(o) + 1>>
        \o (IF PayloadBlocks > 1 THEN <<PayloadLength(o)>> ELSE <<>>)
Cuts(o) == {CutSeq(o)[i] : i \in 1..Len(CutSeq(o))}
CutIndex(o, n) == CHOOSE i \in 1..Len(CutSeq(o)) : CutSeq(o)[i] = n

\* how often the client finalizes without initialize() in between
MaxFinals == 2
\* into how many chunks the client cuts the first message it hashes with an
\* instance; a message hashed after a re-initialization is fed in one chunk
MaxChunks == 3

NoStream == istream(<<>>, NoError, FALSE)
\* the client starts no worker threads
NoThreads == <<>>

Init ==
    /\ id \in 1..Len(Instances)
    /\ obj = Instances[id]
    /\ fed = 0
    /\ chunks = 0
    /\ rets = <<>>
    /\ last = "initialize"      \* every constructor ends in initialize()
    /\ reused = FALSE
    /\ stream = NoStream
    /\ memory = Payload
    /\ threads = NoThreads

\* a call that leaves the instance r.obj and returns the byte vector r.v
Returns(r) == obj' = r.obj /\ rets' = Append(rets, r.v)
\* a call that starts with initialize(), leaves the instance r.obj and returns
\* the byte vector r.v
Restarts(r) ==
    /\ obj' = r.obj
    /\ rets' = <<r.v>>
    /\ reused' = (reused \/ chunks > 0 \/ rets # <<>>)

\* initialize(), to start the next message once a digest was taken
Initialize ==
    /\ rets # <<>>
    /\ obj' = initialize(obj)
    /\ fed' = 0
    /\ chunks' = 0
    /\ rets' = <<>>
    /\ last' = "initialize"
    /\ reused' = TRUE
    /\ UNCHANGED <<id, stream, memory, threads>>

\* hashCore(memory, n, fed): the next chunk of the message, n >= 0 bytes
HashCore(n) ==
    /\ rets = <<>>
    /\ chunks < (IF reused THEN 1 ELSE MaxChunks)
    /\ fed + n \in Cuts(obj)
    /\ obj' = hashCore(obj, memory, n, fed)
    /\ fed' = fed + n
    /\ chunks' = chunks + 1
    /\ last' = "hashCore"
    /\ UNCHANGED <<id, rets, reused, stream, memory, threads>>

\* hashCore(nullptr, 0, 0): a chunk of no bytes that has no address
HashCoreNull ==
    /\ rets = <<>>
    /\ chunks < (IF reused THEN 1 ELSE MaxChunks)
    /\ obj' = hashCore(obj, Null, 0, 0)
    /\ chunks' = chunks + 1
    /\ last' = "hashCore"
    /\ UNCHANGED <<id, fed, rets, reused, stream, memory, threads>>

\* hashFinal()
HashFinal ==
    /\ Len(rets) < MaxFinals
    /\ Returns(hashFinal(obj))
    /\ last' = "hashFinal"
    /\ UNCHANGED <<id, fed, chunks, reused, stream, memory, threads>>

\* computeHash(memory, n): initialize(), hashCore and hashFinal in one call
ComputeHash(n) ==
    /\ Restarts(computeHash(obj, memory, n, 0))
    /\ fed' = n
    /\ chunks' = 1
    /\ last' = "computeHash"
    /\ UNCHANGED <<id, stream, memory, threads>>

Next ==
    \/ Initialize
    \/ \E n \in 0..PayloadLength(obj) : HashCore(n)
    \/ HashCoreNull
    \/ HashFinal
    \/ \E n \in {0, PayloadLength(obj)} : ComputeHash(n)

Spec == Init /\ [][Next]_vars

(***************************************************************************)
(* The client that hashes whole messages: memory blocks with               *)
(* computeHash(data, n)  and streams with computeHash(std::istream&).       *)
(***************************************************************************)
\* HASH_BLOCK_BUFFER_SIZE of the build, in strides of the algorithm
ReadBlocks == 1
m_blockSizeBuffer(o) == ReadBlocks * Stride(o)

\* the lengths of the streams: empty, shorter than one read, exactly the
\* reads, longer than the reads
StreamLengths(o) ==
    {0, 1, m_blockSizeBuffer(o), PayloadBlocks * Stride(o),
     PayloadLength(o)}
\* where the source of a stream errs: never, after its first byte, or at the
\* end of the first read
ErrorPositions(o) == {NoError, 1, m_blockSizeBuffer(o)}

\* r is what computeHash(std::istream&) leaves and returns after the loop:
\* every read of the loop, the short one that ends it included, is followed
\* by one hashCore call
StreamReturns(r) ==
    /\ Restarts(r)
    /\ stream' = r.s
    /\ fed' = r.s.pos
    /\ chunks' = (r.s.pos \div m_blockSizeBuffer(obj)) + 1

\* computeHash(instream) on a stream over the first len bytes of memory
ComputeHashStream(len, errorAt) ==
    /\ errorAt # NoError => errorAt < len
    /\ StreamReturns(computeHashStream(obj,
           istream(SubSeq(memory, 1, len), errorAt, FALSE),
           m_blockSizeBuffer(obj)))
    /\ last' = "computeHashStream"
    /\ UNCHANGED <<id, memory, threads>>

\* r is what computeHash(std::istream&) leaves and returns for a stream in a
\* failed state: the instance is not touched
FailedStreamReturns(r) == Returns(r) /\ stream' = r.s

\* computeHash(instream) on a stream that failed to open
ComputeHashFailedStream ==
    /\ Len(rets) < MaxFinals
    /\ FailedStreamReturns(computeHashStream(obj, istream(<<>>, NoError, TRUE),
                                             m_blockSizeBuffer(obj)))
    /\ last' = "computeHashStream"
    /\ UNCHANGED <<id, fed, chunks, reused, memory, threads>>

NextStream ==
    \/ \E n \in {0, PayloadLength(obj)} : ComputeHash(n)
    \/ \E len \in StreamLengths(obj), errorAt \in ErrorPositions(obj) :
          ComputeHashStream(len, errorAt)
    \/ ComputeHashFailedStream

SpecStream == Init /\ [][NextStream]_vars

(***************************************************************************)
(* The reference every chunked, repeated or streamed computation is        *)
(* compared with: a freshly constructed instance fed a prefix of Payload   *)
(* in one hashCore call.                                                   *)
(***************************************************************************)
\* the families that collect input in a block buffer or in slices
BlockBuffered(o) ==
    o.cls \in {"Md5", "Sha1", "Sha256", "Sha3", "Crc32", "Crc64",
               "XxHash32", "XxHash64"}

\* what the next hashCore or hashFinal call reads of an instance: the
\* registers, the byte counter, the buffer size and the buffered bytes
terminalState(o) ==
    CASE o.cls \in {"Md5", "Sha1", "Sha256", "Sha3"} ->
           <<o.m_hash, o.m_numBytes, o.m_bufferSize,
             SubSeq(o.m_buffer, 1, o.m_bufferSize)>>
      [] o.cls \in {"XxHash32", "XxHash64"} ->
           <<o.m_state, o.m_totalLength, o.m_bufferSize,
             SubSeq(o.m_buffer, 1, o.m_bufferSize)>>
      [] o.cls = "Fnv1aHash" -> <<o.m_hash32, o.m_hash64>>
      [] OTHER -> <<o.m_hash>>

\* o1 is the instance after the single hashCore call
OneShotOf(o1) == [state |-> terminalState(o1), digest |-> hashFinal(o1).v]
OneShotAt(o, n) == OneShotOf(hashCore(initialize(o), Payload, n, 0))
OneShotRow(o) ==
    SubSeq([i \in 1..Len(CutSeq(o)) |-> OneShotAt(o, CutSeq(o)[i])],
           1, Len(CutSeq(o)))
\* OneShot[k][i]: instance k of Instances, the first CutSeq[i] bytes of Payload
OneShot ==
    SubSeq([k \in 1..Len(Instances) |-> OneShotRow(Instances[k])],
           1, Len(Instances))
\* the reference for the bytes the instance of the current state was fed
Reference == OneShot[id][CutIndex(obj, fed)]

(***************************************************************************)
(* Properties of the interface, checked under Spec.                        *)
(***************************************************************************)

\* C1: for the block-buffered families, feeding a message in any chunks
\* (1-byte and empty ones included) leaves the terminal state of feeding it
\* in one hashCore call, and hashFinal then returns the same digest.
C1_ChunkingKeepsTerminalState ==
    BlockBuffered(obj) /\ ~reused =>
        /\ rets = <<>> => terminalState(obj) = Reference.state
        /\ rets # <<>> => rets[1] = Reference.digest
\* a message fed in three chunks, the first ending one byte before the block
\* boundary, and finalized
C1_Witness ==
    /\ BlockBuffered(obj) /\ ~reused
    /\ chunks = MaxChunks /\ fed = Stride(obj) + 1
    /\ last = "hashFinal" /\ Len(rets) = 1
    /\ rets[1] = Reference.digest

\* C2: for every algorithm the digest of a message fed in chunks equals the
\* digest of the message fed in one update.
C2_ChunkingKeepsDigest ==
    rets # <<>> => rets[1] = Reference.digest

\* C3: every returned byte vector is hashSize() / 8 bytes long.
C3_DigestLength ==
    \A i \in 1..Len(rets) : Len(rets[i]) * 8 = hashSize(obj)

\* C4: initialize() makes the result independent of the history: it resets
\* the registers, the buffer size and the byte counter to what the constructor
\* left, and the digest of the message hashed next is the digest a fresh
\* instance returns for it.
C4_InitializeForgetsHistory ==
    reused =>
        /\ last = "initialize" =>
               terminalState(obj) = terminalState(Instances[id])
        /\ rets # <<>> => rets[1] = Reference.digest
\* a used instance that was re-initialized, fed a message and finalized
C4_Witness ==
    /\ reused /\ last = "hashFinal" /\ Len(rets) = 1
    /\ fed = Stride(obj) + 1
    /\ rets[1] = Reference.digest

\* C5: two consecutive hashFinal calls return the same digest.
C5_FinalizeTwice ==
    Len(rets) >= 2 => rets[2] = rets[1]

\* C6: hashCore with length 0 leaves the instance unchanged, whatever the
\* data pointer is.
C6_ZeroLengthIsNoOp ==
    [][(last' = "hashCore" /\ fed' = fed) => obj' = obj]_vars

\* C9: no hashCore or hashFinal call runs on an instance constructed with a
\* digest width that is no enumerator.
C9_MisconfigurationRejected ==
    (chunks > 0 \/ rets # <<>>) =>
        /\ obj.cls = "Sha3" => obj.m_bits \in Sha3Bits
        /\ obj.cls = "Fnv1aHash" => obj.m_bits \in FnvBits

\* C10: the CRC lookup table is the one the constructor built, whatever was
\* called since.
C10_LookupTableImmutable ==
    obj.cls \in {"Crc32", "Crc64"} =>
        obj.m_lookupTable = Instances[id].m_lookupTable
\* a CRC instance that was used, re-initialized, fed and finalized
C10_Witness ==
    /\ obj.cls \in {"Crc32", "Crc64"}
    /\ reused /\ last = "hashFinal" /\ fed > Stride(obj)
    /\ Len(obj.m_lookupTable) = Crc32_MaxSlice

(***************************************************************************)
(* Properties of computeHash(std::istream&), checked under SpecStream.     *)
(***************************************************************************)

\* C7: computeHash on a readable stream returns the digest of computeHash on
\* a memory block that holds the bytes of the stream.
C7_StreamEqualsMemory ==
    (last = "computeHashStream" /\ stream.eof /\ ~stream.bad) =>
        rets = <<OneShot[id][CutIndex(obj, Len(stream.bytes))].digest>>

\* C8: when the stream fails before it delivered all of its bytes,
\* computeHash reports the failure (it returns no digest, as it does for a
\* stream that has failed before the call).
C8_ReadFailureReported ==
    (last = "computeHashStream" /\ stream.bad) => rets[Len(rets)] = <<>>

(***************************************************************************)
(* A client with two worker threads.  Each thread constructs an instance   *)
(* of its own and hashes the memory block in two chunks:                   *)
(*   initialize(); hashCore(memory, cut, 0);                                *)
(*   hashCore(memory, length - cut, cut); hashFinal();                      *)
(* The calls of the two threads interleave in any order.  No class has a   *)
(* static data member that is not const, and no function has a static       *)
(* local, so a call reads and writes the instance it is called on only.    *)
(***************************************************************************)
\* the classes the threads instantiate: Md5, Sha3(256), Crc32 and
\* SuperFastHash32, as indices of Instances
ThreadInstances == {1, 5, 8, 20}
\* where a thread cuts the memory block: the second chunk finds bytes in
\* the buffer and crosses the block boundary
ThreadCut == 1

\* a thread that has constructed instance k and is about to call initialize()
Thread(k) ==
    [id |-> k, obj |-> Instances[k], cut |-> ThreadCut, pc |-> 0,
     ret |-> <<>>, overlapped |-> FALSE]
Programs == {Thread(k) : k \in ThreadInstances}

\* every call acts on the instance of the first thread, as it would if the
\* data members were static
InstanceOf_Static(t) == 1

\* the thread whose instance the calls of thread t act on: its own
\* (the data members are non-static members of the object)
InstanceOf(t) == t

InitThreads ==
    /\ id = 1 /\ obj = Instances[id]    \* the main thread's instance: idle
    /\ fed = 0 /\ chunks = 0 /\ rets = <<>>
    /\ last = "initialize"
    /\ reused = FALSE
    /\ stream = NoStream
    /\ memory = Payload
    /\ threads \in [1..2 -> Programs]

\* thread t is between its first and its last call
Running(t) == threads[t].pc \in 1..3
\* thread t returns from a call that left the instance o and, from hashFinal,
\* returned ret
ThreadReturns(t, o, ret) ==
    /\ threads' = [threads EXCEPT ![InstanceOf(t)].obj = o,
                                  ![t].pc = @ + 1,
                                  ![t].ret = ret,
                                  ![t].overlapped = @ \/ Running(3 - t)]
    /\ UNCHANGED <<id, obj, fed, chunks, rets, reused, stream, memory>>

ThreadInitialize(t) ==
    /\ threads[t].pc = 0
    /\ ThreadReturns(t, initialize(threads[InstanceOf(t)].obj), <<>>)
    /\ last' = "initialize"

\* the chunk of the call: <<dataLength, startIndex>>
ThreadChunk(th) ==
    IF th.pc = 1 THEN <<th.cut, 0>>
    ELSE <<PayloadLength(th.obj) - th.cut, th.cut>>
ThreadHashCore(t) ==
    /\ threads[t].pc \in {1, 2}
    /\ ThreadReturns(t, hashCore(threads[InstanceOf(t)].obj, memory,
                                 ThreadChunk(threads[t])[1],
                                 ThreadChunk(threads[t])[2]), <<>>)
    /\ last' = "hashCore"

\* r is what hashFinal leaves and returns
ThreadFinalReturns(t, r) == ThreadReturns(t, r.obj, r.v)
ThreadHashFinal(t) ==
    /\ threads[t].pc = 3
    /\ ThreadFinalReturns(t, hashFinal(threads[InstanceOf(t)].obj))
    /\ last' = "hashFinal"

NextThreads ==
    \E t \in 1..2 :
        \/ ThreadInitialize(t)
        \/ ThreadHashCore(t)
        \/ ThreadHashFinal(t)

SpecThreads == InitThreads /\ [][NextThreads]_vars

\* the digest of the program of a thread run alone
AloneDigest(o, cut) ==
    hashFinal(hashCore(hashCore(initialize(o), Payload, cut, 0),
                       Payload, PayloadLength(o) - cut, cut)).v
\* Alone[k]: instance k of Instances
Alone ==
    SubSeq([k \in 1..Len(Instances) |->
               IF k \in ThreadInstances
               THEN AloneDigest(Instances[k], ThreadCut) ELSE <<>>],
           1, Len(Instances))

Empty == <<>>
Abc == <<97, 98, 99>>
Digits == <<49, 50, 51, 52, 53, 54, 55, 56, 57>>
Vectors == {Empty, Abc, Digits}
\* the classes with a known vector, and Crc64: Md5, Sha1, Sha256, Crc32,
\* Crc64 and XxHash32 as indices of Instances
VectorInstances == {1, 2, 3, 8, 9, 10}

InitVectors ==
    /\ id \in VectorInstances
    /\ obj = Instances[id]
    /\ fed = 0
    /\ chunks = 0
    /\ rets = <<>>
    /\ last = "initialize"
    /\ reused = FALSE
    /\ stream = NoStream
    /\ memory \in Vectors
    /\ threads = NoThreads

\* hashCore(memory, n, fed): the next n >= 0 bytes of the message
VectorHashCore(n) ==
    /\ rets = <<>>
    /\ chunks < (IF reused THEN 1 ELSE MaxChunks)
    /\ fed + n <= Len(memory)
    /\ obj' = hashCore(obj, memory, n, fed)
    /\ fed' = fed + n
    /\ chunks' = chunks + 1
    /\ last' = "hashCore"
    /\ UNCHANGED <<id, rets, reused, stream, memory, threads>>

NextVectors ==
    \/ Initialize
    \/ \E n \in 0..Len(memory) : VectorHashCore(n)
    \/ HashCoreNull
    \/ HashFinal
    \/ ComputeHash(Len(memory))

SpecVectors == InitVectors /\ [][NextVectors]_vars

\* the message msg was fed whole, in hashCore calls or by computeHash, and
\* a digest was returned
Hashed(cls, msg) ==
    obj.cls = cls /\ memory = msg /\ fed = Len(msg) /\ rets # <<>>

\* the hexadecimal notation of a byte vector as the values of its digits,
\* two per byte, the high one first
RECURSIVE HexDigits(_)
HexDigits(bytes) ==
    IF bytes = <<>> THEN <<>>
    ELSE <<Head(bytes) \div 16, Head(bytes) % 16>> \o HexDigits(Tail(bytes))


(***************************************************************************)
(* The known vectors, checked under SpecVectors.                           *)
(***************************************************************************)

\* C12: CRC-32 with the zlib polynomial and seed 0 of "123456789" is
\* 0xCBF43926, returned as the bytes CB F4 39 26.
C12_Crc32OfDigits ==
    Hashed("Crc32", Digits) =>
        /\ obj.m_polynomial = W(\hEDB8, \h8320) /\ obj.m_seed = Zero32
        /\ obj.m_hash = W(\hCBF4, \h3926)
        /\ rets[1] = <<203, 244, 57, 38>>
\* "123456789" fed to a Crc32 in three chunks and finalized
C12_Witness ==
    /\ Hashed("Crc32", Digits) /\ chunks = MaxChunks /\ last = "hashFinal"
    /\ rets[1] = <<203, 244, 57, 38>>

\* C13: a Crc32 or Crc64 with seed 0 that was fed zero-length chunks only
\* returns the all-zero digest.
C13_CrcOfNothing ==
    (obj.cls \in {"Crc32", "Crc64"} /\ fed = 0) =>
        /\ obj.m_seed \in {Zero32, Zero64}
        /\ \A i \in 1..Len(rets) : rets[i] = Zeros(hashSize(obj) \div 8)
\* a CRC finalized after zero-length hashCore calls on a message that has
\* bytes
C13_Witness ==
    /\ obj.cls \in {"Crc32", "Crc64"} /\ fed = 0 /\ memory # Empty
    /\ chunks = MaxChunks /\ last = "hashFinal"
    /\ rets[1] = Zeros(hashSize(obj) \div 8)

\* C14: xxHash32 with seed 0 of the empty message is 0x02CC5D05, returned
\* as the bytes 02 CC 5D 05.
C14_XxHash32OfEmpty ==
    Hashed("XxHash32", Empty) =>
        obj.m_seed = Zero32 /\ rets[1] = <<2, 204, 93, 5>>
\* an XxHash32 finalized on the empty message after a zero-length hashCore
C14_Witness ==
    /\ Hashed("XxHash32", Empty) /\ chunks > 0 /\ last = "hashFinal"
    /\ rets[1] = <<2, 204, 93, 5>>

\* C15: MD5 of the empty message is d41d8cd98f00b204e9800998ecf8427e.
C15_Md5OfEmpty ==
    Hashed("Md5", Empty) =>
        HexDigits(rets[1]) =
            <<13, 4, 1, 13, 8, 12, 13, 9, 8, 15, 0, 0, 11, 2, 0, 4, 14, 9,
            8, 0, 0, 9, 9, 8, 14, 12, 15, 8, 4, 2, 7, 14>>
\* an Md5 finalized on the empty message
C15_Witness ==
    /\ Hashed("Md5", Empty) /\ last = "hashFinal" /\ Len(rets[1]) = 16
    /\ HexDigits(rets[1])[1] = 13

\* C16 as stated: SHA-1 of "abc" has the hex digest
\* a9993e364706816aba3e25717850c26c9cd0d89 (39 digits).
C16_Sha1OfAbcAsStated ==
    Hashed("Sha1", Abc) =>
        HexDigits(rets[1]) =
            <<10, 9, 9, 9, 3, 14, 3, 6, 4, 7, 0, 6, 8, 1, 6, 10, 11, 10, 3,
            14, 2, 5, 7, 1, 7, 8, 5, 0, 12, 2, 6, 12, 9, 12, 13, 0, 13, 8,
            9>>
\* C16: SHA-1 of "abc" has the 40 digit hex digest
\* a9993e364706816aba3e25717850c26c9cd0d89d.
C16_Sha1OfAbc ==
    Hashed("Sha1", Abc) =>
        HexDigits(rets[1]) =
            <<10, 9, 9, 9, 3, 14, 3, 6, 4, 7, 0, 6, 8, 1, 6, 10, 11, 10, 3,
            14, 2, 5, 7, 1, 7, 8, 5, 0, 12, 2, 6, 12, 9, 12, 13, 0, 13, 8,
            9, 13>>
\* "abc" fed to a Sha1 byte by byte and finalized
C16_Witness ==
    /\ Hashed("Sha1", Abc) /\ chunks = MaxChunks /\ last = "hashFinal"
    /\ Len(rets[1]) = 20 /\ HexDigits(rets[1])[40] = 13

(***************************************************************************)
(* Properties of the block buffer, checked under Spec.                     *)
(***************************************************************************)
\* the classes with the members m_buffer and m_bufferSize
Buffering(o) ==
    o.cls \in {"Md5", "Sha1", "Sha256", "Sha3", "XxHash32", "XxHash64"}
\* the classes with the byte counter m_numBytes
Counting(o) == o.cls \in {"Md5", "Sha1", "Sha256", "Sha3"}

\* C17: between calls the buffer of Md5, Sha1, Sha256, Sha3, XxHash32 and
\* XxHash64 holds fewer bytes than a block.
C17_BufferBelowBlock ==
    Buffering(obj) => obj.m_bufferSize >= 0 /\ obj.m_bufferSize < Stride(obj)
\* a hashCore call has filled the buffer to one byte below the block size
C17_Witness ==
    /\ Buffering(obj) /\ last = "hashCore" /\ chunks > 1
    /\ obj.m_bufferSize = Stride(obj) - 1

\* C18: between calls m_numBytes of Md5, Sha1, Sha256 and Sha3 is a multiple
\* of the block size, and with the buffered bytes it adds up to the bytes
\* fed since initialize().
C18_NumBytesExcludesBuffer ==
    Counting(obj) =>
        /\ obj.m_numBytes % Stride(obj) = 0
        /\ obj.m_numBytes + obj.m_bufferSize = fed
\* a block was drained from the buffer and one byte is buffered
C18_Witness ==
    /\ Counting(obj) /\ last = "hashCore" /\ chunks = MaxChunks
    /\ obj.m_numBytes = Stride(obj) /\ obj.m_bufferSize = 1
    /\ fed = Stride(obj) + 1

(***************************************************************************)
(* The client that feeds a message of up to two blocks and one byte in two *)
(* hashCore calls, cut around the block boundaries and around the place    *)
(* where the padding of Md5, Sha1 and Sha256 stops fitting into the block, *)
(* and finalizes.                                                          *)
(***************************************************************************)
\* Md5, Sha1, Sha256, Sha3(512), XxHash32 and XxHash64 as indices of
\* Instances: the buffering classes of which two blocks and a byte fit
\* into Payload
BlockInstances == {1, 2, 3, 7, 10, 11}
\* the hashCore calls per message
BlockChunks == 2
BlockCuts(o) ==
    {c \in {0, 1, Stride(o) - 9, Stride(o) - 8, Stride(o) - 1, Stride(o),
            Stride(o) + 1, 2 * Stride(o), (2 * Stride(o)) + 1} :
        c <= Len(Payload)}

InitBlocks ==
    /\ id \in BlockInstances
    /\ obj = Instances[id]
    /\ fed = 0
    /\ chunks = 0
    /\ rets = <<>>
    /\ last = "initialize"
    /\ reused = FALSE
    /\ stream = NoStream
    /\ memory = Payload
    /\ threads = NoThreads

\* hashCore(memory, n, fed): the next n >= 0 bytes of the message
BlockHashCore(n) ==
    /\ rets = <<>>
    /\ chunks < BlockChunks
    /\ fed + n \in BlockCuts(obj)
    /\ obj' = hashCore(obj, memory, n, fed)
    /\ fed' = fed + n
    /\ chunks' = chunks + 1
    /\ last' = "hashCore"
    /\ UNCHANGED <<id, rets, reused, stream, memory, threads>>

NextBlocks ==
    \/ \E n \in 0..Len(Payload) : BlockHashCore(n)
    \/ HashFinal

SpecBlocks == InitBlocks /\ [][NextBlocks]_vars

\* the block transform of the class on the block at mem + p
processBlock(o, mem, p) ==
    CASE o.cls = "Md5" -> Md5_processBlock(o, mem, p)
      [] o.cls = "Sha1" -> Sha1_processBlock(o, mem, p)
      [] o.cls = "Sha256" -> Sha256_processBlock(o, mem, p)
      [] o.cls = "Sha3" -> Sha3_processBlock(o, mem, p)
      [] o.cls = "XxHash32" ->
           [o EXCEPT !.m_state = XxHash32_process(mem, p, @)]
      [] o.cls = "XxHash64" ->
           [o EXCEPT !.m_state = XxHash64_process(mem, p, @)]
\* the registers the block transform works on
Registers(o) ==
    IF o.cls \in {"XxHash32", "XxHash64"} THEN o.m_state ELSE o.m_hash
\* k consecutive blocks at mem + p transformed in place
RECURSIVE Transformed(_, _, _, _)
Transformed(o, mem, p, k) ==
    IF k = 0 THEN o
    ELSE Transformed(processBlock(o, mem, p), mem, p + Stride(o), k - 1)

(***************************************************************************)
(* Properties of draining and padding, checked under SpecBlocks.           *)
(***************************************************************************)
\* the drain policy for a call hashCore(mem, n, start) that finds o and
\* leaves o1
Drained(o, o1, mem, n, start) ==
    LET B == Stride(o)
        b == o.m_bufferSize
        rest == (b + n) % B
        fromBuffer == IF b > 0 /\ b + n >= B THEN 1 ELSE 0
        \* the bytes that fill the buffer to exactly B bytes
        fill == fromBuffer * (B - b)
        filled == WriteBytes(o.m_buffer, b, mem, start, fill)
        first == Transformed(o, filled, 0, fromBuffer)
    IN  /\ Registers(o1) =
               Registers(Transformed(first, mem, start + fill,
                                     ((b + n) \div B) - fromBuffer))
        /\ o1.m_bufferSize = rest
        /\ o1.m_buffer =
               IF b + n < B THEN WriteBytes(o.m_buffer, b, mem, start, n)
               ELSE WriteBytes(filled, 0, mem, (start + n) - rest, rest)

\* C19: a hashCore call that finds b bytes in the buffer and gets n bytes
\* runs floor((b + n) / B) block transforms: when b > 0 and b + n >= B the
\* first on the buffer filled to B bytes, every other one on the input in
\* place; it leaves the last (b + n) mod B bytes in the buffer, which holds
\* no block that was transformed in place.
C19_DrainPolicy ==
    [][(last' = "hashCore" /\ Buffering(obj)) =>
           Drained(obj, obj', memory, fed' - fed, fed)]_vars
\* a call that found one byte or a block less one byte in the buffer and
\* got the rest of two blocks and a byte: the buffer holds the last byte of
\* the message and, behind it, the rest of the first block
C19_Witness ==
    /\ Buffering(obj) /\ last = "hashCore" /\ chunks = 2
    /\ fed = (2 * Stride(obj)) + 1
    /\ obj.m_bufferSize = 1
    /\ obj.m_buffer[1] = Payload[fed]
    /\ SubSeq(obj.m_buffer, 2, Stride(obj)) = SubSeq(Payload, 2, Stride(obj))

\* the classes with the Merkle-Damgard padding
Padding(o) == o.cls \in {"Md5", "Sha1", "Sha256"}
\* the 8 bytes of the length field as the class writes them
LengthField(o) ==
    IF o.cls = "Md5" THEN Bytes64(MsgBits(o)) ELSE BigEndianBytes64(MsgBits(o))
\* the number of blocks of the padded tail
TailBlocks(o) == IF o.m_bufferSize <= 55 THEN 1 ELSE 2
\* the buffered bytes, 0x80, zero bytes, and the length field in the last 8
\* bytes of the last block
PaddedTail(o) ==
    SubSeq(o.m_buffer, 1, o.m_bufferSize) \o <<128>>
        \o Zeros((TailBlocks(o) * 64) - (o.m_bufferSize + 9))
        \o LengthField(o)
\* the bytes of the registers as hashFinal returns them
DigestBytes(o) ==
    IF o.cls = "Md5" THEN LittleEndianWords(o.m_hash)
    ELSE BigEndianWords(o.m_hash)
PaddedDigest(o) ==
    DigestBytes(Transformed(o, PaddedTail(o), 0, TailBlocks(o)))

\* C20: hashFinal of Md5, Sha1 and Sha256 with b buffered bytes returns the
\* registers after the transform of the padded tail: the b bytes, 0x80,
\* zeros and the 8 byte length field at the end of the last block, which
\* is one block for b <= 55 and two blocks for 56 <= b <= 63.
C20_PaddedTail ==
    [][(last' = "hashFinal" /\ Padding(obj)) =>
           /\ obj.m_bufferSize \in 0..63
           /\ rets'[Len(rets')] = PaddedDigest(obj)]_vars
\* a digest of a message that ends 56 bytes into a block: the padding takes
\* a second block
C20_Witness ==
    /\ Padding(obj) /\ last = "hashFinal" /\ Len(rets) = 1
    /\ obj.m_bufferSize = 56 /\ TailBlocks(obj) = 2
    /\ rets[1] = PaddedDigest(obj)
\* a digest of a message that ends 55 bytes into a block: 0x80 and the
\* length field fill the block
C20_WitnessOneBlock ==
    /\ Padding(obj) /\ last = "hashFinal" /\ Len(rets) = 1
    /\ obj.m_bufferSize = 55 /\ TailBlocks(obj) = 1
    /\ rets[1] = PaddedDigest(obj)

(***************************************************************************)
(* The length field of the padding, checked under SpecBlocks.              *)
(***************************************************************************)
\* the n low bytes of the number v, the lowest first
RECURSIVE LowBytesFirst(_, _)
LowBytesFirst(v, n) ==
    IF n = 0 THEN <<>> ELSE <<v % 256>> \o LowBytesFirst(v \div 256, n - 1)
Reversed(s) == [i \in 1..Len(s) |-> s[(Len(s) + 1) - i]]
\* 8 x n as 8 bytes in the byte order of the class; the messages of the
\* model are shorter than 2^28 bytes, so 8 x n is its own residue mod 2^64
BitLengthField(cls, n) ==
    IF cls = "Md5" THEN LowBytesFirst(8 * n, 8)
    ELSE Reversed(LowBytesFirst(8 * n, 8))
\* the padded tail of a message of n bytes of which the buffer of o holds
\* the last m_bufferSize
TailOfMessage(o, n) ==
    SubSeq(o.m_buffer, 1, o.m_bufferSize) \o <<128>>
        \o Zeros((TailBlocks(o) * 64) - (o.m_bufferSize + 9))
        \o BitLengthField(o.cls, n)

\* C21: hashFinal of Md5, Sha1 and Sha256 after fed bytes, in whatever
\* chunks they came, appends the number 8 x fed as the length field: 8
\* bytes, the lowest first for Md5 and the highest first for Sha1 and
\* Sha256.  With at most 55 buffered bytes the field is left in the last 8
\* bytes of m_buffer; in every case the digest is that of the tail with
\* this field.
C21_LengthField ==
    [][(last' = "hashFinal" /\ Padding(obj)) =>
           /\ obj.m_bufferSize <= 55 =>
                  SubSeq(obj'.m_buffer, 57, 64) = BitLengthField(obj.cls, fed)
           /\ rets'[Len(rets')] =
                  DigestBytes(Transformed(obj, TailOfMessage(obj, fed), 0,
                                          TailBlocks(obj)))]_vars
\* a digest of two blocks and a byte fed in two chunks: the length field
\* 1032 has two non-zero bytes and includes the blocks hashed before
C21_Witness ==
    /\ Padding(obj) /\ last = "hashFinal" /\ chunks = 2 /\ fed = 129
    /\ obj.m_numBytes = 128 /\ obj.m_bufferSize = 1
    /\ SubSeq(obj.m_buffer, 57, 64) =
           (IF obj.cls = "Md5" THEN <<8, 4, 0, 0, 0, 0, 0, 0>>
            ELSE <<0, 0, 0, 0, 0, 0, 4, 8>>)

(***************************************************************************)
(* The client that takes a digest in the middle of a message: it feeds a   *)
(* message of up to two blocks and a byte in two hashCore calls and may    *)
(* call hashFinal before, between and after them.                          *)
(***************************************************************************)
\* Md5, Sha1, Sha256, XxHash32 and XxHash64 as indices of Instances
ResumeInstances == {1, 2, 3, 10, 11}
\* the hashCore calls per message
ResumeChunks == 2

InitResume ==
    /\ id \in ResumeInstances
    /\ obj = Instances[id]
    /\ fed = 0
    /\ chunks = 0
    /\ rets = <<>>
    /\ last = "initialize"
    /\ reused = FALSE
    /\ stream = NoStream
    /\ memory = Payload
    /\ threads = NoThreads

\* hashCore(memory, n, fed): the next n >= 0 bytes of the message, whether
\* or not a digest was taken before
ResumeHashCore(n) ==
    /\ chunks < ResumeChunks
    /\ fed + n \in BlockCuts(obj)
    /\ obj' = hashCore(obj, memory, n, fed)
    /\ fed' = fed + n
    /\ chunks' = chunks + 1
    /\ last' = "hashCore"
    /\ UNCHANGED <<id, rets, reused, stream, memory, threads>>

NextResume ==
    \/ \E n \in 0..Len(Payload) : ResumeHashCore(n)
    \/ HashFinal

SpecResume == InitResume /\ [][NextResume]_vars

\* the digest of the first n bytes of mem, hashed in one call by a fresh
\* instance of the class of o
WholeDigest(o, mem, n) == hashFinal(hashCore(initialize(o), mem, n, 0)).v

(***************************************************************************)
(* Properties of hashFinal in the middle of a message, checked under       *)
(* SpecResume.                                                             *)
(***************************************************************************)
\* C22: hashFinal of Md5, Sha1 and Sha256 leaves the registers, m_numBytes,
\* m_bufferSize and the buffered bytes as it found them, and returns the
\* digest of all the bytes fed since initialize(), those fed before an
\* earlier hashFinal included.
C22_FinalizeKeepsStream ==
    [][(last' = "hashFinal" /\ Padding(obj)) =>
           /\ obj'.m_hash = obj.m_hash
           /\ obj'.m_numBytes = obj.m_numBytes
           /\ obj'.m_bufferSize = obj.m_bufferSize
           /\ SubSeq(obj'.m_buffer, 1, obj.m_bufferSize) =
                  SubSeq(obj.m_buffer, 1, obj.m_bufferSize)
           /\ rets'[Len(rets')] = WholeDigest(obj, memory, fed)]_vars
\* hashCore(A); hashFinal; hashCore(B); hashFinal with A of 56 bytes, whose
\* padding took a second block, and A followed by B of two blocks and a byte
C22_Witness ==
    /\ Padding(obj) /\ last = "hashFinal" /\ chunks = 2 /\ fed = 129
    /\ Len(rets) = 2
    /\ rets[1] = WholeDigest(obj, memory, 56)
    /\ rets[2] = WholeDigest(obj, memory, 129)

(***************************************************************************)
(* The client that feeds Sha3 a message of up to one block and one byte in *)
(* up to three hashCore calls of at least one byte each, cut around the    *)
(* rate boundary, and finalizes once.                                      *)
(***************************************************************************)
\* Sha3 with 224, 256, 384 and 512 bits as indices of Instances
SpongeInstances == {4, 5, 6, 7}
\* the hashCore calls per message
SpongeChunks == 3

\* the offsets at which the client cuts the message: a byte and a lane of 8
\* bytes from its start and from the rate boundary, and a byte behind it
SpongeCuts(o) ==
    {1, 8, o.m_blockSize - 8, o.m_blockSize - 1, o.m_blockSize,
     o.m_blockSize + 1}

InitSponge ==
    /\ id \in SpongeInstances
    /\ obj = Instances[id]
    /\ fed = 0
    /\ chunks = 0
    /\ rets = <<>>
    /\ last = "initialize"
    /\ reused = FALSE
    /\ stream = NoStream
    /\ memory = Payload
    /\ threads = NoThreads

\* hashCore(memory, n, fed): the next n > 0 bytes of the message
SpongeHashCore(n) ==
    /\ rets = <<>>
    /\ chunks < SpongeChunks
    /\ fed + n \in SpongeCuts(obj)
    /\ obj' = hashCore(obj, memory, n, fed)
    /\ fed' = fed + n
    /\ chunks' = chunks + 1
    /\ last' = "hashCore"
    /\ UNCHANGED <<id, rets, reused, stream, memory, threads>>

\* hashFinal(), once
SpongeHashFinal ==
    /\ rets = <<>>
    /\ Returns(hashFinal(obj))
    /\ last' = "hashFinal"
    /\ UNCHANGED <<id, fed, chunks, reused, stream, memory, threads>>

NextSponge ==
    \/ \E n \in 1..PayloadLength(obj) : SpongeHashCore(n)
    \/ SpongeHashFinal

SpecSponge == InitSponge /\ [][NextSponge]_vars

(***************************************************************************)
(* Properties of the sponge, checked under SpecSponge.                     *)
(***************************************************************************)
\* the padding of a block of rate bytes that holds b < rate message bytes:
\* 0x06, zero bytes, and 0x80 in the last byte of the block
SpongePadding(b, rate) ==
    IF b = rate - 1 THEN <<134>>
    ELSE <<6>> \o Zeros(rate - (b + 2)) \o <<128>>

\* C23: hashFinal of Sha3 with b buffered bytes finds b below the rate,
\* leaves in m_buffer the b bytes, 0x06, zero bytes up to the rate and 0x80
\* ORed into the byte at rate - 1 (0x86 for b = rate - 1), and leaves in
\* m_hash the registers after one block transform of that block.
C23_SpongePadding ==
    [][(last' = "hashFinal" /\ obj.cls = "Sha3") =>
           LET b == obj.m_bufferSize
               rate == obj.m_blockSize
               block == SubSeq(obj.m_buffer, 1, b) \o SpongePadding(b, rate)
           IN  /\ b < rate
               /\ SubSeq(obj'.m_buffer, 1, rate) = block
               /\ obj'.m_hash = Transformed(obj, block, 0, 1).m_hash]_vars
\* a digest of a message that ends one byte before the rate boundary: the
\* padding is the single byte 0x86
C23_Witness ==
    /\ obj.cls = "Sha3" /\ last = "hashFinal"
    /\ obj.m_bufferSize = obj.m_blockSize - 1
    /\ obj.m_buffer[obj.m_blockSize] = 134
    /\ obj.m_buffer[1] = Payload[1]
\* a digest of a message with room for both padding bytes
C23_WitnessTwoBytes ==
    /\ obj.cls = "Sha3" /\ last = "hashFinal" /\ obj.m_bufferSize = 1
    /\ obj.m_buffer[2] = 6
    /\ obj.m_buffer[obj.m_blockSize] = 128

\* the message of n bytes of mem as the sponge absorbs it: the bytes and the
\* padding of the last block
Absorbed(mem, n, rate) ==
    SubSeq(mem, 1, n) \o SpongePadding(n % rate, rate)

\* C24: hashFinal after exactly one rate block of input, in whatever chunks
\* it came, leaves the registers of a fresh instance after two block
\* transforms, of the block and of a block of padding only; after an input
\* shorter than the rate it leaves them after one block transform, of the
\* input and the padding.
C24_RateBoundary ==
    [][(last' = "hashFinal" /\ obj.cls = "Sha3" /\ fed <= obj.m_blockSize) =>
           obj'.m_hash =
               Transformed(Instances[id],
                           Absorbed(memory, fed, obj.m_blockSize), 0,
                           IF fed = obj.m_blockSize THEN 2 ELSE 1).m_hash]_vars
\* a digest of one rate block that came in two chunks, the second of which
\* filled the buffer
C24_Witness ==
    /\ obj.cls = "Sha3" /\ last = "hashFinal" /\ chunks = 2
    /\ fed = obj.m_blockSize /\ obj.m_numBytes = fed
    /\ obj.m_bufferSize = 0
    /\ obj.m_hash =
           Transformed(Instances[id], Absorbed(memory, fed, obj.m_blockSize),
                       0, 2).m_hash

(***************************************************************************)
(* Properties of the block sizes, checked under Spec.                      *)
(***************************************************************************)
\* the block sizes of Md5, Sha1, Sha256, XxHash32 and XxHash64: the buffer
\* is drained every 64, 16 and 32 bytes
FixedBlockSizes ==
    /\ Padding(obj) =>
           Stride(obj) = 64 /\ obj.m_bufferSize = fed % 64
    /\ obj.cls = "XxHash32" =>
           Stride(obj) = 16 /\ obj.m_bufferSize = fed % 16
    /\ obj.cls = "XxHash64" =>
           Stride(obj) = 32 /\ obj.m_bufferSize = fed % 32
\* Sha3 with one of the four digest widths
Sha3OfWidth(o) == o.cls = "Sha3" /\ o.m_bits \in Sha3Bits

\* C25 as stated: the block size is 64 bytes for Md5, Sha1 and Sha256,
\* between 144 and 168 bytes for Sha3 of every digest width, 16 bytes for
\* XxHash32 and 32 bytes for XxHash64.
C25_BlockSizesAsStated ==
    /\ FixedBlockSizes
    /\ Sha3OfWidth(obj) => obj.m_blockSize \in 144..168
\* C25: the block size is 64 bytes for Md5, Sha1 and Sha256, 144, 136, 104
\* and 72 bytes for Sha3 of 224, 256, 384 and 512 bits, that is between 72
\* and 144 bytes, 16 bytes for XxHash32 and 32 bytes for XxHash64; the
\* buffer is drained at every multiple of it.
C25_BlockSizes ==
    /\ FixedBlockSizes
    /\ Sha3OfWidth(obj) =>
           /\ obj.m_blockSize = (CASE obj.m_bits = 224 -> 144
                                   [] obj.m_bits = 256 -> 136
                                   [] obj.m_bits = 384 -> 104
                                   [] obj.m_bits = 512 -> 72)
           /\ obj.m_blockSize \in 72..144
           /\ obj.m_bufferSize = fed % obj.m_blockSize
\* Sha3 of 512 bits after 73 bytes: the buffer was drained at 72 bytes
C25_Witness ==
    /\ Sha3OfWidth(obj) /\ obj.m_bits = 512 /\ last = "hashCore"
    /\ fed = 73 /\ obj.m_numBytes = 72 /\ obj.m_bufferSize = 1

(***************************************************************************)
(* Properties of XxHash32 and XxHash64, checked under SpecResume.          *)
(***************************************************************************)
XxHash(o) == o.cls \in {"XxHash32", "XxHash64"}
\* the lanes of an instance that was fed n bytes of mem since initialize():
\* those of the fresh instance after the full blocks among the n bytes
LanesAfter(k, mem, n) ==
    Transformed(Instances[k], mem, 0, n \div Stride(Instances[k])).m_state
\* the lanes and the total length of o after n bytes: below a block the
\* lanes of initialize(), with the seed in lane 2; from a block on, other
\* lanes
LanesTrackBlocks(o, n) ==
    /\ o.m_totalLength = n
    /\ o.m_state = LanesAfter(id, memory, n)
    /\ n < Stride(o) =>
           o.m_state = Instances[id].m_state /\ o.m_state[3] = o.m_seed
    /\ n >= Stride(o) => o.m_state # Instances[id].m_state
\* the four lanes rotated by 1, 7, 12 and 18 bits and added up
Rotated32(s) ==
    add32(add32(rotateLeft32(s[1], 1), rotateLeft32(s[2], 7)),
          add32(rotateLeft32(s[3], 12), rotateLeft32(s[4], 18)))
Rotated64(s) ==
    add64(add64(rotateLeft64(s[1], 1), rotateLeft64(s[2], 7)),
          add64(rotateLeft64(s[3], 12), rotateLeft64(s[4], 18)))
\* the value hashFinal starts the buffered bytes with, the lanes folded or
\* not
Start32(o, folded) ==
    add32(U32(fed),
          IF folded THEN Rotated32(o.m_state)
          ELSE add32(o.m_state[3], XxHash32_Prime5))
Start64(o, folded) ==
    add64(U64(fed),
          IF folded
          THEN XxHash64_merges(<<Rotated64(o.m_state), 1>>, o.m_state)[1]
          ELSE add64(o.m_state[3], XxHash64_Prime5))
\* the digest of the buffered bytes of o from the start value on
DigestFrom(o, folded) ==
    IF o.cls = "XxHash32"
    THEN BigEndianBytes32(XxHash32_mixBits(
             XxHash32_eat1(o.m_buffer, o.m_bufferSize,
                 XxHash32_eat4(o.m_buffer, o.m_bufferSize,
                               <<Start32(o, folded), 0>>))[1]))
    ELSE BigEndianBytes64(XxHash64_mixBits(
             XxHash64_eat1(o.m_buffer, o.m_bufferSize,
                 XxHash64_eat4(o.m_buffer, o.m_bufferSize,
                     XxHash64_eat8(o.m_buffer, o.m_bufferSize,
                                   <<Start64(o, folded), 0>>)))[1]))

\* C26: XxHash32 and XxHash64 that were fed less than a block hold the
\* lanes of initialize(), lane 2 the seed, and from a block on the lanes
\* after the full blocks, which are other lanes; hashFinal folds the four
\* lanes exactly when a block was processed and starts from lane 2 and
\* Prime5 when none was.
C26_FinalizeBranch ==
    [][XxHash(obj) =>
           /\ LanesTrackBlocks(obj, fed)
           /\ LanesTrackBlocks(obj', fed')
           /\ last' = "hashFinal" =>
                  rets'[Len(rets')] = DigestFrom(obj, fed >= Stride(obj))]_vars
\* a digest of a block less a byte that came in two chunks, and a digest of
\* a block and a byte
C26_Witness ==
    /\ XxHash(obj) /\ last = "hashFinal" /\ Len(rets) = 2
    /\ fed = Stride(obj) + 1 /\ chunks = 2
    /\ rets[1] = WholeDigest(obj, memory, Stride(obj) - 1)
    /\ rets[2] = DigestFrom(obj, TRUE)
    /\ rets[2] # DigestFrom(obj, FALSE)

\* the temporary buffer of o after n bytes of mem: the last
\* m_totalLength mod block size of them
BufferTracksTail(o, mem, n) ==
    /\ o.m_totalLength = n
    /\ o.m_bufferSize = o.m_totalLength % Stride(o)
    /\ SubSeq(o.m_buffer, 1, o.m_bufferSize) =
           SubSeq(mem, (n - o.m_bufferSize) + 1, n)

\* C27: between the calls the temporary buffer of XxHash32 and XxHash64
\* holds the last m_totalLength mod block size bytes fed; hashFinal changes
\* no member of the instance and returns the digest of all the bytes fed
\* since initialize(), so that a second hashFinal returns the same digest
\* and a hashCore after it continues the message.
C27_BufferAndFinalize ==
    [][XxHash(obj) =>
           /\ BufferTracksTail(obj, memory, fed)
           /\ BufferTracksTail(obj', memory, fed')
           /\ last' = "hashFinal" =>
                  /\ obj' = obj
                  /\ rets'[Len(rets')] = WholeDigest(obj, memory, fed)
                  /\ last = "hashFinal" =>
                         rets'[Len(rets')] = rets[Len(rets)]]_vars
\* hashCore; hashFinal; hashCore; hashFinal: a digest of 9 bytes less than
\* a block and a digest of two blocks and a byte, with the last byte in the
\* buffer
C27_Witness ==
    /\ XxHash(obj) /\ last = "hashFinal" /\ Len(rets) = 2 /\ chunks = 2
    /\ fed = (2 * Stride(obj)) + 1
    /\ obj.m_bufferSize = 1 /\ obj.m_buffer[1] = memory[fed]
    /\ rets[1] = WholeDigest(obj, memory, Stride(obj) - 9)
    /\ rets[2] = WholeDigest(obj, memory, fed)
\* hashFinal twice in a row with bytes in the buffer
C27_WitnessTwice ==
    /\ XxHash(obj) /\ last = "hashFinal" /\ Len(rets) = 2 /\ chunks = 1
    /\ obj.m_bufferSize = Stride(obj) - 1
    /\ rets[1] = rets[2]

(***************************************************************************)
(* Memory safety of the buffers, checked under Spec.  The arrays are       *)
(* sequences of the length of their capacity: a write at an index from the *)
(* capacity on would make the sequence longer.                             *)
(***************************************************************************)
\* the number of elements of m_buffer
Capacity(o) ==
    CASE Padding(o) -> 64
      [] o.cls = "Sha3" -> Sha3_MaxBlockSize
      [] o.cls = "XxHash32" -> 16
      [] o.cls = "XxHash64" -> 32
\* the writes hashCore made and the next call starts with stay in m_buffer
BufferInBounds(o) ==
    /\ Len(o.m_buffer) = Capacity(o)
    /\ o.m_bufferSize < Capacity(o)
    /\ o.cls = "Sha3" => o.m_blockSize <= Capacity(o)
\* the writes of processBuffer, called now, stay in m_buffer and in the 64
\* bytes of extra: the 8 bytes of the length field lie in one of them
PaddingInBounds(o) ==
    /\ Padding(o) =>
           LET paddedLength == MD_paddedLength(o.m_bufferSize)
           IN  /\ Len(MD_padded(o, LengthField(o))) = 64 + 64
               /\ \/ paddedLength + 8 <= 64
                  \/ paddedLength >= 64 /\ (paddedLength - 64) + 8 <= 64
    /\ o.cls = "Sha3" => Len(Sha3_padded(o)) = Capacity(o)
\* mem with every byte outside the n bytes from offset p on replaced
Outside(mem, p, n) ==
    [i \in 1..Len(mem) |->
        IF p < i /\ i <= p + n THEN mem[i] ELSE 255 - mem[i]]

\* C28: every write of hashCore and hashFinal of Md5, Sha1, Sha256, Sha3,
\* XxHash32 and XxHash64 into m_buffer has an index below its capacity
\* (64, 144, 16, 32), every write of processBuffer into extra, the length
\* field included, lies in its 64 bytes, and hashCore depends on no byte of
\* the input outside the dataLength bytes from startIndex on.
C28_BuffersInBounds ==
    [][Buffering(obj) =>
           /\ BufferInBounds(obj) /\ PaddingInBounds(obj)
           /\ BufferInBounds(obj') /\ PaddingInBounds(obj')
           /\ (last' = "hashCore" /\ fed' > fed) =>
                  obj' = hashCore(obj, Outside(memory, fed, fed' - fed),
                                  fed' - fed, fed)]_vars
\* hashFinal of Md5, Sha1 or Sha256 with 63 buffered bytes: 0x80 went to
\* the last byte of m_buffer, 56 zero bytes and the length field filled
\* extra
C28_Witness ==
    /\ Padding(obj) /\ last = "hashFinal" /\ chunks > 1
    /\ obj.m_bufferSize = 63 /\ obj.m_buffer[64] = 128
    /\ MD_paddedLength(obj.m_bufferSize) = 64 + 56
\* hashFinal of Sha3 of 224 bits with 143 buffered bytes: the padding went
\* to the last byte of m_buffer
C28_WitnessSponge ==
    /\ obj.cls = "Sha3" /\ last = "hashFinal"
    /\ obj.m_blockSize = Sha3_MaxBlockSize
    /\ obj.m_bufferSize = 143 /\ obj.m_buffer[144] = 134

(***************************************************************************)
(* The client that feeds Adler32 long runs of high bytes: a run of 0xFF    *)
(* over which the sums pass the modulus, and a message that takes the sums *)
(* to 65520 and goes on with more than m_nmax bytes 0xFF, the values for   *)
(* which the sums of the deferred loop are the largest.                    *)
(***************************************************************************)
\* Adler32 as index of Instances
AdlerInstances == {12}
\* the hashCore calls per message
AdlerChunks == 3
\* n bytes of value v
Run(n, v) == [i \in 1..n |-> v]
\* 261 bytes after which a fresh Adler32 holds a = 65520 and b = 65520
AdlerPrefix == SubSeq(Run(253, 255) \o Run(6, 128) \o <<46, 190>>, 1, 261)
\* the prefix, m_nmax bytes 0xFF and one byte more
AdlerWorst ==
    SubSeq(AdlerPrefix \o Run(Adler32_m_nmax + 1, 255), 1,
           Len(AdlerPrefix) + Adler32_m_nmax + 1)
\* 258 bytes 0xFF: a passes the modulus with byte 257, b with byte 23
AdlerOnes == SubSeq(Run(258, 255), 1, 258)
AdlerMemories == {AdlerWorst, AdlerOnes, Payload}
\* the offsets at which the client cuts the message
AdlerCuts(mem) ==
    IF Len(mem) = Len(AdlerWorst)
    THEN {0, 1, Len(AdlerPrefix), Len(AdlerPrefix) + 1,
          Len(AdlerPrefix) + Adler32_m_nmax, Len(mem)}
    ELSE {c \in {0, 1, 15, 16, 17, 22, 23, 256, 257, Len(mem)} : c <= Len(mem)}

InitAdler ==
    /\ id \in AdlerInstances
    /\ obj = Instances[id]
    /\ fed = 0
    /\ chunks = 0
    /\ rets = <<>>
    /\ last = "initialize"
    /\ reused = FALSE
    /\ stream = NoStream
    /\ memory \in AdlerMemories
    /\ threads = NoThreads

\* hashCore(memory, n, fed): the next n >= 0 bytes of the message
AdlerHashCore(n) ==
    /\ rets = <<>>
    /\ chunks < AdlerChunks
    /\ obj' = hashCore(obj, memory, n, fed)
    /\ fed' = fed + n
    /\ chunks' = chunks + 1
    /\ last' = "hashCore"
    /\ UNCHANGED <<id, rets, reused, stream, memory, threads>>

NextAdler ==
    \/ \E c \in AdlerCuts(memory) : c >= fed /\ AdlerHashCore(c - fed)
    \/ HashFinal

SpecAdler == InitAdler /\ [][NextAdler]_vars

(***************************************************************************)
(* Properties of Adler32, checked under SpecAdler.                         *)
(***************************************************************************)
\* the recurrence a = (a + byte) mod 65521, b = (b + a) mod 65521 over the k
\* bytes of mem from offset p on; ab = <<a, b>>, both below 65521
RECURSIVE Recurrence(_, _, _, _)
Recurrence(mem, p, k, ab) ==
    IF k = 0 \/ ab[1] >= 65521 THEN ab
    ELSE Recurrence(mem, p + 1, k - 1,
                    <<(ab[1] + mem[p + 1]) % 65521,
                      (ab[2] + ((ab[1] + mem[p + 1]) % 65521)) % 65521>>)
\* the recurrence over n rows of 32 bytes
RECURSIVE RecurrenceRows(_, _, _, _)
RecurrenceRows(mem, p, n, ab) ==
    IF n = 0 \/ ab[1] >= 65521 THEN ab
    ELSE RecurrenceRows(mem, p + 32, n - 1, Recurrence(mem, p, 32, ab))
\* the recurrence over the n bytes of mem from offset p on, 32 rows at a
\* time
RECURSIVE RecurrenceFrom(_, _, _, _)
RecurrenceFrom(mem, p, n, ab) ==
    IF n >= 32 * 32
    THEN RecurrenceFrom(mem, p + (32 * 32), n - (32 * 32),
                        RecurrenceRows(mem, p, 32, ab))
    ELSE Recurrence(mem, p + (32 * (n \div 32)), n % 32,
                    RecurrenceRows(mem, p, n \div 32, ab))
\* the halves of m_hash of o are reduced and are the result of the
\* recurrence over the first n bytes of mem, started with a = 1 and b = 0
AdlerState(o, mem, n) ==
    /\ o.m_hash[1] < 65521 /\ o.m_hash[2] < 65521
    /\ o.m_hash = RecurrenceFrom(mem, 0, n, <<1, 0>>)

\* C29: after initialize() and after every hashCore call on a block of
\* memory both halves of m_hash of Adler32 are below 65521 and are what the
\* byte by byte recurrence gives for the bytes fed, for calls of one byte
\* and of any other length; the sums of up to m_nmax = 5552 bytes that the
\* loop adds up before it reduces them do not leave 32 bits.
C29_AdlerReduced ==
    [][obj.cls = "Adler32" =>
           /\ AdlerState(obj, memory, fed)
           /\ AdlerState(obj', memory, fed')]_vars
\* m_nmax bytes 0xFF fed in one call to an instance with a = b = 65520:
\* before the reduction b is 4294690200, 277096 below 2^32
C29_Witness ==
    /\ obj.cls = "Adler32" /\ last = "hashCore" /\ memory = AdlerWorst
    /\ chunks = 2 /\ fed = Len(AdlerPrefix) + Adler32_m_nmax
    /\ Adler32_sum(memory, <<U32(65520), U32(65520), Len(AdlerPrefix),
                             Adler32_m_nmax>>)[2] = W(\hFFFB, \hC598)
    /\ AdlerState(obj, memory, fed)
\* a call of one byte that takes a over the modulus
C29_WitnessOneByte ==
    /\ obj.cls = "Adler32" /\ last = "hashCore" /\ memory = AdlerOnes
    /\ chunks = 2 /\ fed = 257 /\ obj.m_hash[1] = 15

(***************************************************************************)
(* computeHash(std::istream&) on a stream that is in a failed state,       *)
(* checked under SpecStream.                                               *)
(***************************************************************************)
\* the stream a failed call leaves: the stream that failed to open, not
\* sought and not read
Untouched(s) == s = istream(<<>>, NoError, TRUE)

\* C30: computeHash(stream) on a stream that is already in a failed state
\* returns an empty byte vector and changes nothing: the data members of the
\* instance, the stored hashValue() among them, are what they were, no byte is
\* fed and the stream is neither sought nor read
C30_FailedStreamChangesNothing ==
    [][(last' = "computeHashStream" /\ Untouched(stream')) =>
           /\ rets' = Append(rets, <<>>)
           /\ obj' = obj
           /\ hashValue(obj') = hashValue(obj)
           /\ fed' = fed /\ chunks' = chunks]_vars
\* the failed call on an instance that holds the digest of a message: its
\* registers are not those initialize() sets and hashValue() is the digest
C30_Witness ==
    /\ last = "computeHashStream" /\ Untouched(stream)
    /\ Len(rets) = 2 /\ rets[2] = <<>> /\ rets[1] # <<>>
    /\ hashValue(obj) = rets[1]
    /\ obj # initialize(obj)
    /\ fed > 0

=============================================================================
